---- MODULE Spec2Model ----
(***************************************************************************)
(* Model of the PDP analytics pipeline: the enrichment join of             *)
(* ProcessPDPDataUseCase (application/use_cases/process_pdp_data.py) and   *)
(* the heatmap builders (application/services/excel_service.py,            *)
(* adapters/output_adapters/services/pandas_transformation_service.py,     *)
(* infrastructure/excel/heatmap_formatter.py).                             *)
(*                                                                         *)
(* Python floats are IEEE 754 binary64.  They are modelled exactly: a      *)
(* float is a record [m, e] standing for m * 2^e, where m is a natural     *)
(* number below 2^53 kept as a little-endian sequence of base-2^13 limbs   *)
(* (TLC's integers are 32 bits wide).  Every float operation computes the  *)
(* exact result and rounds it once to 53 bits, ties to even.               *)
(***************************************************************************)
EXTENDS Integers, Sequences, FiniteSets, TLC

\* ------------------------------------------------------------------------
\* Bounds of the model
\* ------------------------------------------------------------------------
MaxCalls == 2
MaxPdp == 2
MaxHm == 2

\* ------------------------------------------------------------------------
\* Optional values: None is the empty tuple, a present value v is <<v>>
\* ------------------------------------------------------------------------
None == <<>>
Some(v) == <<v>>

\* ------------------------------------------------------------------------
\* Natural numbers as little-endian limb sequences
\* ------------------------------------------------------------------------
LimbBits == 13
Base == 2 ^ LimbBits
MantissaBits == 53
\* number of zero limbs put under a dividend, so that a quotient carries
\* more than MantissaBits + 2 significant bits
DivLimbs == 6

RECURSIVE Trim(_)
Trim(N) ==
    IF N = <<>> THEN <<>>
    ELSE IF N[Len(N)] = 0 THEN Trim(SubSeq(N, 1, Len(N) - 1))
    ELSE N

RECURSIVE FromInt(_)
FromInt(k) == IF k = 0 THEN <<>> ELSE <<k % Base>> \o FromInt(k \div Base)

RECURSIVE ToIntFrom(_, _)
ToIntFrom(N, i) == IF i > Len(N) THEN 0 ELSE N[i] + Base * ToIntFrom(N, i + 1)

ToInt(N) == ToIntFrom(N, 1)

RECURSIVE MulSmallFrom(_, _, _, _)
MulSmallFrom(N, k, i, c) ==
    IF i > Len(N)
    THEN FromInt(c)
    ELSE LET v == N[i] * k + c
         IN  <<v % Base>> \o MulSmallFrom(N, k, i + 1, v \div Base)

MulSmall(N, k) == Trim(MulSmallFrom(N, k, 1, 0))

RECURSIVE AddBigFrom(_, _, _, _)
AddBigFrom(X, Y, i, c) ==
    IF i > Len(X) /\ i > Len(Y)
    THEN FromInt(c)
    ELSE LET v == (IF i <= Len(X) THEN X[i] ELSE 0)
                  + (IF i <= Len(Y) THEN Y[i] ELSE 0) + c
         IN  <<v % Base>> \o AddBigFrom(X, Y, i + 1, v \div Base)

AddBig(X, Y) == Trim(AddBigFrom(X, Y, 1, 0))

\* long division of limbs 1..i of N by a small n, entered with remainder r
RECURSIVE DivSmallFrom(_, _, _, _)
DivSmallFrom(N, n, i, r) ==
    IF i = 0
    THEN [q |-> <<>>, r |-> r]
    ELSE LET v    == r * Base + N[i]
             rest == DivSmallFrom(N, n, i - 1, v % n)
         IN  [q |-> Append(rest.q, v \div n), r |-> rest.r]

DivSmall(N, n) ==
    LET d == DivSmallFrom(N, n, Len(N), 0) IN [q |-> Trim(d.q), r |-> d.r]

RECURSIVE BitLenSmall(_)
BitLenSmall(x) == IF x = 0 THEN 0 ELSE 1 + BitLenSmall(x \div 2)

BitLen(N) == IF N = <<>> THEN 0 ELSE (Len(N) - 1) * LimbBits + BitLenSmall(N[Len(N)])

Zeros(a) == [i \in 1..a |-> 0]

ShiftLeft(N, t) ==
    Trim(Zeros(t \div LimbBits) \o MulSmall(N, 2 ^ (t % LimbBits)))

\* N \div 2^t, and whether a nonzero bit was shifted out
ShiftRightSticky(N, t) ==
    LET a  == t \div LimbBits
        lo == SubSeq(N, 1, a)
        hi == SubSeq(N, a + 1, Len(N))
        d  == DivSmall(hi, 2 ^ (t % LimbBits))
    IN  [q |-> d.q, sticky |-> d.r # 0 \/ \E i \in DOMAIN lo : lo[i] # 0]

IsOdd(N) == N # <<>> /\ N[1] % 2 = 1

\* the integer nearest to N / 2^t (t >= 1), ties to even; sticky says that
\* the exact dividend is slightly above N
RoundShift(N, t, sticky) ==
    LET s  == ShiftRightSticky(N, t - 1)
        d  == DivSmall(s.q, 2)
        up == d.r = 1 /\ (s.sticky \/ sticky \/ IsOdd(d.q))
    IN  IF up THEN AddBig(d.q, <<1>>) ELSE d.q

\* ------------------------------------------------------------------------
\* binary64 arithmetic
\* ------------------------------------------------------------------------
FloatZero == [m |-> <<>>, e |-> 0]

\* the float nearest to N * 2^e (plus a sticky epsilon)
Round53(N, e, sticky) ==
    IF BitLen(N) <= MantissaBits
    THEN [m |-> N, e |-> e]
    ELSE LET t == BitLen(N) - MantissaBits
         IN  [m |-> RoundShift(N, t, sticky), e |-> e + t]

\* p / q on two ints (Python true division)
FloatDiv(p, q) ==
    IF p = 0 THEN FloatZero
    ELSE LET d == DivSmall(Zeros(DivLimbs) \o FromInt(p), q)
         IN  Round53(d.q, -(DivLimbs * LimbBits), d.r # 0)

\* x / n, a float by an int
FloatDivInt(x, n) ==
    IF x.m = <<>> THEN FloatZero
    ELSE LET d == DivSmall(Zeros(DivLimbs) \o x.m, n)
         IN  Round53(d.q, x.e - DivLimbs * LimbBits, d.r # 0)

\* k * x, an int by a float
FloatMulInt(k, x) ==
    IF x.m = <<>> \/ k = 0 THEN FloatZero
    ELSE Round53(MulSmall(x.m, k), x.e, FALSE)

\* x + y
FloatAdd(x, y) ==
    IF x.m = <<>> THEN y
    ELSE IF y.m = <<>> THEN x
    ELSE LET e == IF x.e < y.e THEN x.e ELSE y.e
         IN  Round53(AddBig(ShiftLeft(x.m, x.e - e), ShiftLeft(y.m, y.e - e)),
                     e, FALSE)

\* int(x): truncation toward zero of a non-negative float
IntOf(x) ==
    IF x.m = <<>> THEN 0
    ELSE IF x.e >= 0 THEN ToInt(ShiftLeft(x.m, x.e))
    ELSE ToInt(ShiftRightSticky(x.m, -x.e).q)

\* round(x, 2) in hundredths: the integer nearest to the exact 100 * x,
\* ties to even (Python rounds the exact binary value)
RoundScaled(x, k) ==
    IF x.m = <<>> THEN 0
    ELSE IF x.e >= 0 THEN ToInt(ShiftLeft(MulSmall(x.m, k), x.e))
    ELSE ToInt(RoundShift(MulSmall(x.m, k), -x.e, FALSE))

\* ------------------------------------------------------------------------
\* Generic helpers
\* ------------------------------------------------------------------------
SeqsUpTo(S, n) == UNION {[1..k -> S] : k \in 0..n}

RECURSIVE SumSeq(_)
SumSeq(s) == IF s = <<>> THEN 0 ELSE s[1] + SumSeq(Tail(s))

RECURSIVE Flatten(_)
Flatten(ss) == IF ss = <<>> THEN <<>> ELSE ss[1] \o Flatten(Tail(ss))

MaxOf(S) == CHOOSE x \in S : \A y \in S : y <= x

\* the elements of the set of naturals S as an ascending sequence
RECURSIVE SortedSeq(_)
SortedSeq(S) ==
    IF S = {} THEN <<>>
    ELSE LET m == CHOOSE x \in S : \A y \in S : x <= y
         IN  <<m>> \o SortedSeq(S \ {m})

\* ------------------------------------------------------------------------
\* Strings that the code transforms are sequences of character codes
\* ------------------------------------------------------------------------
\* str.lower() on ASCII text: 'A'..'Z' (65..90) become 'a'..'z'
lower(s) == [i \in DOMAIN s |-> IF s[i] \in 65..90 THEN s[i] + 32 ELSE s[i]]

\* "a@b.co" and "A@b.co": values Email.__post_init__ accepts
EmailLower == <<97, 64, 98, 46, 99, 111>>
EmailUpper == <<65, 64, 98, 46, 99, 111>>

Date(y, m, d) == [year |-> y, month |-> m, day |-> d]

\* the (agent email, date) pairs of the records the two sources return:
\* one agent under two spellings on one day, and on a second day
AgentDateValues ==
    { <<EmailLower, Date(2025, 5, 9)>>,
      <<EmailUpper, Date(2025, 5, 9)>>,
      <<EmailLower, Date(2025, 5, 10)>> }

CountValues == {0, 3, 7}

SecondsValues == {90, 125}

\* a PDPRecord as BigQueryPDPRepository._map_row_to_entity builds it:
\* no connected time, and pdp_per_hour left at its default
PdpRecordValues ==
    { [agent_email |-> k[1], record_date |-> k[2], pdp_count |-> c,
       total_connected_seconds |-> None, pdp_per_hour |-> None] :
      k \in AgentDateValues, c \in CountValues }

\* an AgentCallData; __post_init__ rejects negative connected seconds
CallValues ==
    { [agent_email |-> k[1], call_date |-> k[2], total_connected_seconds |-> s] :
      k \in AgentDateValues, s \in SecondsValues }

\* ------------------------------------------------------------------------
\* Rates (Decimal) are kept as fractions num / den
\* ------------------------------------------------------------------------
Rate(n, d) == [num |-> n, den |-> d]
RateZero == Rate(0, 1)
RateEq(a, b) == a.num * b.den = b.num * a.den

\* MetricCalculator.compute_rate of the specification
compute_rate(activity_count, connected_seconds) ==
    IF connected_seconds = None THEN RateZero
    ELSE IF connected_seconds[1] = 0 THEN RateZero
    ELSE Rate(activity_count * 3600, connected_seconds[1])

\* PDPRecord.with_connected_time: a new record carrying the seconds and
\* the rate derived from them
with_connected_time(pdp, seconds) ==
    [pdp EXCEPT !.total_connected_seconds = Some(seconds),
                !.pdp_per_hour = Some(compute_rate(pdp.pdp_count, Some(seconds)))]

\* ------------------------------------------------------------------------
\* ProcessPDPDataUseCase._enrich_with_call_data
\* ------------------------------------------------------------------------
CallKey(call) == <<lower(call.agent_email), call.call_date>>

PdpKeyRaw(pdp) == <<pdp.agent_email, pdp.record_date>>

PdpKey(pdp) == <<lower(pdp.agent_email), pdp.record_date>>

\* the lookup that keeps the first call of a key
CallLookupFirst(calls, key) ==
    LET idx == {i \in DOMAIN calls : CallKey(calls[i]) = key}
    IN  IF idx = {} THEN None
        ELSE Some(calls[CHOOSE i \in idx : \A j \in idx : i <= j])

\* the dict comprehension: a later call with the same key replaces an
\* earlier one; the result is None when no call has the key
CallLookup(calls, key) ==
    LET idx == {i \in DOMAIN calls : CallKey(calls[i]) = key}
    IN  IF idx = {} THEN None ELSE Some(calls[MaxOf(idx)])

\* the keys of pdp_groups in insertion order (first occurrence)
GroupKeys(pdps) ==
    LET first == {i \in DOMAIN pdps :
                    \A j \in 1..(i - 1) : PdpKey(pdps[j]) # PdpKey(pdps[i])}
        idx == SortedSeq(first)
    IN  [n \in DOMAIN idx |-> PdpKey(pdps[idx[n]])]

GroupOf(pdps, key) == SelectSeq(pdps, LAMBDA p : PdpKey(p) = key)

\* weight = pdp_count / total_pdps if total_pdps > 0 else 0, as a result
\* that is either a float or the ZeroDivisionError of a division by zero
WeightUnguarded(pdp_count, total_pdps) ==
    IF total_pdps = 0
    THEN [raised |-> TRUE, exc |-> "ZeroDivisionError"]
    ELSE [raised |-> FALSE, value |-> FloatDiv(pdp_count, total_pdps)]

Weight(pdp_count, total_pdps) ==
    IF total_pdps > 0
    THEN [raised |-> FALSE, value |-> FloatDiv(pdp_count, total_pdps)]
    ELSE [raised |-> FALSE, value |-> FloatZero]

\* weighted_seconds = int(total_seconds * weight)
WeightedSecondsRounded(total_seconds, weight) ==
    RoundScaled(FloatMulInt(total_seconds, weight), 1)

WeightedSeconds(total_seconds, weight) == IntOf(FloatMulInt(total_seconds, weight))

\* the matched branch of the loop over pdp_groups: the call's seconds
\* shared out over the members of one group
ApportionGroup(pdp_list, call) ==
    LET total_seconds == call.total_connected_seconds
        total_pdps == SumSeq([i \in DOMAIN pdp_list |-> pdp_list[i].pdp_count])
    IN  [i \in DOMAIN pdp_list |->
           LET weight == Weight(pdp_list[i].pdp_count, total_pdps)
           IN  IF weight.raised
               THEN weight
               ELSE with_connected_time(
                        pdp_list[i], WeightedSeconds(total_seconds, weight.value))]

\* the unmatched branch: enriched_records.extend(pdp_list)
UnmatchedGroupZero(pdp_list) ==
    [i \in DOMAIN pdp_list |->
       [pdp_list[i] EXCEPT !.total_connected_seconds = Some(0)]]

UnmatchedGroup(pdp_list) == pdp_list

\* the body of the loop for one group; call is None when call_lookup.get
\* finds nothing, and an AgentCallData is always truthy
EnrichGroup(pdp_list, call) ==
    IF call # None
    THEN ApportionGroup(pdp_list, call[1])
    ELSE UnmatchedGroup(pdp_list)

\* the enriched records, or the exception one of the groups raised
enrich_with_call_data(pdp_records, call_data) ==
    LET keys   == GroupKeys(pdp_records)
        groups == [n \in DOMAIN keys |->
                     EnrichGroup(GroupOf(pdp_records, keys[n]),
                                 CallLookup(call_data, keys[n]))]
        out    == Flatten(groups)
        bad    == {i \in DOMAIN out : "raised" \in DOMAIN out[i]}
    IN  IF bad = {}
        THEN [raised |-> FALSE, value |-> out]
        ELSE [raised |-> TRUE, exc |-> out[CHOOSE i \in bad : \A j \in bad : i <= j].exc]

\* ------------------------------------------------------------------------
\* PDPResponseDTO (application/dto/pdp_dto.py)
\* ------------------------------------------------------------------------
DTOFields ==
    {"total_records", "unique_agents", "average_productivity",
     "excel_file_path", "processing_time_seconds", "period", "errors"}

DTORequired == DTOFields \ {"errors"}

\* the dataclass constructor called with the keyword arguments kw: a
\* TypeError for an unknown or a missing argument; __post_init__ turns
\* errors = None into the empty list
PDPResponseDTO(kw) ==
    IF DOMAIN kw \subseteq DTOFields /\ DTORequired \subseteq DOMAIN kw
    THEN [raised |-> FALSE,
          value |-> [f \in DTOFields |->
                       IF f \in DOMAIN kw
                       THEN (IF f = "errors" /\ kw[f] = None THEN <<>> ELSE kw[f])
                       ELSE <<>>]]
    ELSE [raised |-> TRUE, exc |-> "TypeError"]

PDPResponseDTO_empty(errors) ==
    [total_records |-> 0, unique_agents |-> 0, average_productivity |-> 0,
     excel_file_path |-> "", processing_time_seconds |-> 0, period |-> "",
     errors |-> errors]

PDPResponseDTO_with_error(error_message) ==
    [total_records |-> 0, unique_agents |-> 0, average_productivity |-> 0,
     excel_file_path |-> "", processing_time_seconds |-> 0, period |-> "",
     errors |-> <<error_message>>]

\* f"Failed to process PDP data: {str(e)}"
FailedToProcess(cause) == <<"Failed to process PDP data: ", cause>>

\* ------------------------------------------------------------------------
\* ProcessPDPDataUseCase._save_to_csv: the columns derived from the
\* connected time of each record
\* ------------------------------------------------------------------------
CsvRow(record) ==
    LET secs == record.total_connected_seconds
        truthy == secs # None /\ secs # Some(0)
    IN  [pdp_count |-> record.pdp_count,
         segundos_conectado |-> IF truthy THEN secs[1] ELSE 0,
         pdp_por_hora |-> IF truthy THEN record.pdp_per_hour[1] ELSE RateZero]

CsvPath == "output/csv/enriched_pdp_data_<timestamp>.csv"

\* ------------------------------------------------------------------------
\* Text and cells of the heatmap builders
\* ------------------------------------------------------------------------
\* str(n) of a natural number: its decimal digits
RECURSIVE str(_)
str(n) == IF n < 10 THEN <<48 + n>> ELSE str(n \div 10) \o <<48 + (n % 10)>>

\* s < t on Python strings: code point by code point, a proper prefix first
LexLess(s, t) ==
    \E i \in 1..Len(t) :
      /\ \A j \in 1..(i - 1) : j <= Len(s) /\ s[j] = t[j]
      /\ (i > Len(s) \/ s[i] < t[i])

\* a < b on (dni, agent_name) tuples of strings
PairLess(a, b) == LexLess(a[1], b[1]) \/ (a[1] = b[1] /\ LexLess(a[2], b[2]))

\* the (dni, agent_name) tuples of the set S as an ascending sequence: the
\* sorted index of a pivot table
SortedPairs(S) ==
    [n \in 1..Cardinality(S) |->
       CHOOSE x \in S : Cardinality({y \in S : PairLess(y, x)}) = n - 1]

\* a numeric cell of value h / 100, and the cell "" of a day without data
Number(h) == [hundredths |-> h]
EmptyMarker == [text |-> ""]

\* sum(values) over floats, left to right
RECURSIVE FloatSum(_)
FloatSum(fs) ==
    IF fs = <<>> THEN FloatZero
    ELSE FloatAdd(FloatSum(SubSeq(fs, 1, Len(fs) - 1)), fs[Len(fs)])

\* round(x, 2) of Python, in hundredths
round2(x) == RoundScaled(x, 100)

\* Series.round(decimals) of pandas / numpy: rint(x * 10^decimals), the
\* product rounded to a float before rint; scale is 10^decimals
np_round(x, scale) == RoundScaled(FloatMulInt(scale, x), 1)

\* the rows left in the order they were built in
in_built_order(result) == result

\* sorted(result, key=lambda x: x["Promedio"], reverse=True): a stable
\* sort, rows of equal Promedio keep their order
sorted_by_promedio_desc(result) ==
    LET n == Len(result)
        key(i) == result[i].Promedio.hundredths
        before(i, j) == key(i) > key(j) \/ (key(i) = key(j) /\ i < j)
        at(p) == CHOOSE i \in 1..n : Cardinality({j \in 1..n : before(j, i)}) = p - 1
    IN  [p \in 1..n |-> result[at(p)]]

\* "111", "SIN DNI", "SIN_DNI_", "ANA", "LUIS"
Dni111 == <<49, 49, 49>>
SinDni == <<83, 73, 78, 32, 68, 78, 73>>
SinDniPrefix == <<83, 73, 78, 95, 68, 78, 73, 95>>
NameAna == <<65, 78, 65>>
NameLuis == <<76, 85, 73, 83>>

DniValues == {Dni111, SinDni}
NameValues == {NameAna, NameLuis}
HmDateValues == {Date(2025, 5, 9), Date(2025, 5, 10)}
HourValues == {9, 10}
HmCountValues == {0, 3}

\* the fields of a record the heatmap builders read
HmRecordValues ==
    [dni : DniValues, agent_name : NameValues, record_date : HmDateValues,
     hour : HourValues, pdp_count : HmCountValues]

DaysOf(records) == {records[i].record_date.day : i \in DOMAIN records}

\* ------------------------------------------------------------------------
\* ExcelService.generate_pdp_report and ExcelService._prepare_heatmap_data
\* ------------------------------------------------------------------------
\* unique_days = sorted(set(record.record_date.day ...)) and the headers
unique_days(pdp_records) == SortedSeq(DaysOf(pdp_records))

heatmap_headers(pdp_records) ==
    LET days == unique_days(pdp_records)
    IN  [DNI |-> "DNI", EJECUTIVO |-> "EJECUTIVO",
         day_columns |-> [i \in DOMAIN days |-> str(days[i])],
         Promedio |-> "Promedio"]

\* the days ordered as text instead of as numbers
all_days_as_text(pdp_records) ==
    LET days == DaysOf(pdp_records)
    IN  [n \in 1..Cardinality(days) |->
           CHOOSE x \in days :
             Cardinality({y \in days : LexLess(str(y), str(x))}) = n - 1]

\* all_days = sorted(set(record.record_date.day ...))
all_days(pdp_records) == SortedSeq(DaysOf(pdp_records))

agent_key(record) ==
    IF record.dni = SinDni THEN SinDniPrefix \o record.agent_name ELSE record.dni

\* agent_data: one entry per agent_key in insertion order, DNI and
\* EJECUTIVO from the first record of the key, daily_data per day seen
agent_data(pdp_records) ==
    LET first == {i \in DOMAIN pdp_records :
                    \A j \in 1..(i - 1) :
                      agent_key(pdp_records[j]) # agent_key(pdp_records[i])}
        idx == SortedSeq(first)
        of(key) == {i \in DOMAIN pdp_records : agent_key(pdp_records[i]) = key}
        on(key, day) == {i \in of(key) : pdp_records[i].record_date.day = day}
        daily(key) ==
            [day \in {pdp_records[i].record_date.day : i \in of(key)} |->
               [pdp_count |->
                  SumSeq([i \in DOMAIN pdp_records |->
                            IF i \in on(key, day) THEN pdp_records[i].pdp_count ELSE 0]),
                hours_worked |-> {pdp_records[i].hour : i \in on(key, day)}]]
    IN  [n \in DOMAIN idx |->
           [DNI |-> pdp_records[idx[n]].dni,
            EJECUTIVO |-> pdp_records[idx[n]].agent_name,
            daily_data |-> daily(agent_key(pdp_records[idx[n]]))]]

\* round(pdp_count / distinct_hours, 2) if distinct_hours > 0 else 0
day_pdp_per_hour(day_data) ==
    LET distinct_hours == Cardinality(day_data.hours_worked)
    IN  IF distinct_hours > 0
        THEN round2(FloatDiv(day_data.pdp_count, distinct_hours))
        ELSE 0

\* every cell counted for the average, a day without data as 0
values_with_empty_as_zero(cells) ==
    [i \in DOMAIN cells |-> IF cells[i] = EmptyMarker THEN Number(0) ELSE cells[i]]

\* daily_pdp_per_hour_values: the cells of the days with data whose value
\* is above 0, in the order of the days
positive_values(cells) ==
    SelectSeq(cells, LAMBDA c : c # EmptyMarker /\ c.hundredths > 0)

\* the row of one agent: a cell for each of the days, in their order
heatmap_row(data, days) ==
    LET cell(day) ==
            IF day \in DOMAIN data.daily_data
            THEN Number(day_pdp_per_hour(data.daily_data[day]))
            ELSE EmptyMarker
        cells == [i \in DOMAIN days |-> cell(days[i])]
        daily_pdp_per_hour_values == positive_values(cells)
        floats == [i \in DOMAIN daily_pdp_per_hour_values |->
                     FloatDiv(daily_pdp_per_hour_values[i].hundredths, 100)]
    IN  [DNI |-> data.DNI,
         EJECUTIVO |-> data.EJECUTIVO,
         days |-> [i \in DOMAIN days |-> [key |-> str(days[i]), value |-> cells[i]]],
         Promedio |->
           IF daily_pdp_per_hour_values # <<>>
           THEN Number(round2(FloatDivInt(FloatSum(floats),
                                          Len(daily_pdp_per_hour_values))))
           ELSE Number(0)]

prepare_heatmap_data(pdp_records) ==
    LET agents == agent_data(pdp_records)
        days == all_days(pdp_records)
    IN  sorted_by_promedio_desc([n \in DOMAIN agents |-> heatmap_row(agents[n], days)])

\* ------------------------------------------------------------------------
\* ExcelService._prepare_detailed_data
\* ------------------------------------------------------------------------
\* the decimal digits of n, with zeros in front up to the width (%02d, %Y)
zero_padded(n, width) ==
    LET digits == str(n)
    IN  IF Len(digits) >= width THEN digits
        ELSE [i \in 1..(width - Len(digits)) |-> 48] \o digits

\* f"{record.hour}:00", the hour without its leading zero
hora_unpadded(hour) == str(hour) \o <<58, 48, 48>>

\* f"{record.hour:02d}:00"
hora(hour) == zero_padded(hour, 2) \o <<58, 48, 48>>

\* record.record_date.strftime("%Y-%m-%d")
fecha(d) ==
    zero_padded(d.year, 4) \o <<45>> \o zero_padded(d.month, 2) \o <<45>>
    \o zero_padded(d.day, 2)

\* the dict of one record; the counters of the other columns are copied
\* like "Gestiones PDP"
detail_row(record) ==
    [Fecha |-> fecha(record.record_date),
     Hora |-> hora(record.hour),
     DNI |-> record.dni,
     Ejecutivo |-> record.agent_name,
     Gestiones_PDP |-> record.pdp_count]

\* (x["Fecha"], x["Hora"], x["DNI"]) < (...) on tuples of strings
detail_key_less(a, b) ==
    \/ LexLess(a.Fecha, b.Fecha)
    \/ a.Fecha = b.Fecha /\ LexLess(a.Hora, b.Hora)
    \/ a.Fecha = b.Fecha /\ a.Hora = b.Hora /\ LexLess(a.DNI, b.DNI)

detail_key_equal(a, b) == a.Fecha = b.Fecha /\ a.Hora = b.Hora /\ a.DNI = b.DNI

\* sorted(data, key=...): a stable ascending sort
prepare_detailed_data(pdp_records) ==
    LET data == [i \in DOMAIN pdp_records |-> detail_row(pdp_records[i])]
        n == Len(data)
        before(i, j) ==
            \/ detail_key_less(data[i], data[j])
            \/ detail_key_equal(data[i], data[j]) /\ i < j
        at(p) == CHOOSE i \in 1..n : Cardinality({j \in 1..n : before(j, i)}) = p - 1
    IN  [p \in 1..n |-> data[at(p)]]

\* ------------------------------------------------------------------------
\* PandasTransformationService.create_productivity_heatmap
\* ------------------------------------------------------------------------
\* grouped["average"]: per (dni, agent_name, day) the summed metric over
\* the number of distinct hours, rounded to one decimal; in tenths
\* the average taken per record instead of per distinct hour
grouped_average_per_record(records, dni, agent_name, day) ==
    LET rows == {i \in DOMAIN records :
                   /\ records[i].dni = dni
                   /\ records[i].agent_name = agent_name
                   /\ records[i].record_date.day = day}
        total == SumSeq([i \in DOMAIN records |->
                           IF i \in rows THEN records[i].pdp_count ELSE 0])
    IN  IF rows = {} THEN None
        ELSE Some(np_round(FloatDiv(total, Cardinality(rows)), 10))

grouped_average(records, dni, agent_name, day) ==
    LET rows == {i \in DOMAIN records :
                   /\ records[i].dni = dni
                   /\ records[i].agent_name = agent_name
                   /\ records[i].record_date.day = day}
        total == SumSeq([i \in DOMAIN records |->
                           IF i \in rows THEN records[i].pdp_count ELSE 0])
        nunique == Cardinality({records[i].hour : i \in rows})
    IN  IF rows = {} THEN None
        ELSE Some(np_round(FloatDiv(total, nunique), 10))

\* the index of the pivot table: the (dni, agent_name) pairs, sorted
pivot_index(records) ==
    SortedPairs({<<records[i].dni, records[i].agent_name>> : i \in DOMAIN records})

\* one row of the pivot table with its Promedio: the mean over the cells
\* that are not NaN, rounded to one decimal
pivot_row(records, agent, columns) ==
    LET average(day) == grouped_average(records, agent[1], agent[2], day)
        present == SelectSeq(columns, LAMBDA day : average(day) # None)
        floats == [i \in DOMAIN present |-> FloatDiv(average(present[i])[1], 10)]
    IN  [DNI |-> agent[1],
         EJECUTIVO |-> agent[2],
         days |-> [i \in DOMAIN columns |->
                     [key |-> str(columns[i]),
                      value |-> IF average(columns[i]) = None
                                THEN EmptyMarker
                                ELSE Number(10 * average(columns[i])[1])]],
         Promedio |->
           Number(10 * np_round(FloatDivInt(FloatSum(floats), Len(present)), 10))]

create_productivity_heatmap(records) ==
    IF records = <<>> THEN <<>>
    ELSE LET index == pivot_index(records)
             columns == SortedSeq(DaysOf(records))
         IN  sorted_by_promedio_desc(
               [n \in DOMAIN index |-> pivot_row(records, index[n], columns)])

\* ------------------------------------------------------------------------
\* HeatmapFormatter.format_productivity_heatmap
\* ------------------------------------------------------------------------
IsLeap(year) == year % 4 = 0 /\ (year % 100 # 0 \/ year % 400 = 0)

\* the day before the first day of the next month
get_days_in_month(year, month) ==
    IF month = 2 THEN (IF IsLeap(year) THEN 29 ELSE 28)
    ELSE IF month \in {4, 6, 9, 11} THEN 30
    ELSE 31

RateValues == {0, 1}
MonthValues == {<<2025, 2>>, <<2025, 5>>}

\* the dicts handed to the formatter
HmDataValues ==
    [dni : DniValues, agent_name : NameValues, day : {9, 10},
     pdp_per_hour : RateValues]

\* pivot with aggfunc="mean" and fill_value=0, every day of the month
\* added with 0, the columns sorted, the values rounded to two decimals
formatter_row(data, agent, columns) ==
    LET rows(day) == {i \in DOMAIN data :
                        /\ data[i].dni = agent[1]
                        /\ data[i].agent_name = agent[2]
                        /\ data[i].day = day}
        total(day) == SumSeq([i \in DOMAIN data |->
                                IF i \in rows(day) THEN data[i].pdp_per_hour ELSE 0])
        mean(day) == FloatDiv(total(day), Cardinality(rows(day)))
        cell(day) == IF rows(day) = {} THEN 0 ELSE np_round(mean(day), 100)
    IN  [dni |-> agent[1],
         agent_name |-> agent[2],
         supervisor |-> "N/A",
         days |-> [i \in DOMAIN columns |->
                     [key |-> columns[i], value |-> Number(cell(columns[i]))]],
         Total |-> Number(SumSeq([i \in DOMAIN columns |-> cell(columns[i])]))]

\* the pivot before sort_values; ValueError when the columns are missing
format_productivity_heatmap(data, month, year) ==
    IF data = <<>>
    THEN [raised |-> TRUE, exc |-> "ValueError"]
    ELSE LET index == SortedPairs({<<data[i].dni, data[i].agent_name>> : i \in DOMAIN data})
             columns == SortedSeq({data[i].day : i \in DOMAIN data}
                                  \cup 1..get_days_in_month(year, month))
         IN  [raised |-> FALSE,
              value |-> [n \in DOMAIN index |-> formatter_row(data, index[n], columns)]]

\* sort_values("Total", ascending=False): the rows in an order of
\* descending Total; the order among equal totals is not fixed
sort_values_total_desc(rows) ==
    { [p \in DOMAIN rows |-> rows[perm[p]]] :
        perm \in {q \in Permutations(DOMAIN rows) :
                    \A i, j \in DOMAIN rows :
                      i < j => rows[q[i]].Total.hundredths >= rows[q[j]].Total.hundredths} }

\* ------------------------------------------------------------------------
\* ExcelGenerator._apply_heatmap
\* ------------------------------------------------------------------------
\* what a cell of the DataFrame can hold besides a number and "":
\* NaN (the row's dict lacks the column), None, and other text
NaN == [nan |-> TRUE]
NoneCell == [none |-> TRUE]
Text(t) == [chars |-> t]

HighThreshold == 3
LowThreshold == 2

\* col.isdigit(), int(col)
isdigit(t) == t # <<>> /\ \A i \in DOMAIN t : t[i] \in 48..57

RECURSIVE int_of_text(_)
int_of_text(t) ==
    IF t = <<>> THEN 0
    ELSE 10 * int_of_text(SubSeq(t, 1, Len(t) - 1)) + (t[Len(t)] - 48)

\* if col.isdigit() and 1 <= int(col) <= 31
is_day_column(col) == isdigit(col) /\ int_of_text(col) \in 1..31

\* float(cell_value), in hundredths; None when it raises ValueError or
\* TypeError (the texts of the model have no sign, point or exponent)
float_of_cell(cell_value) ==
    IF "hundredths" \in DOMAIN cell_value THEN Some(cell_value.hundredths)
    ELSE IF "chars" \in DOMAIN cell_value /\ isdigit(cell_value.chars)
    THEN Some(100 * int_of_text(cell_value.chars))
    ELSE None

White == [value |-> EmptyMarker, format |-> "format_white"]

\* the high style only above the threshold, not at it
written_cell_strict(cell_value) ==
    LET value == float_of_cell(cell_value)
    IN  IF cell_value \in {NaN, EmptyMarker, NoneCell} \/ value = None THEN White
        ELSE IF value[1] > 100 * HighThreshold
        THEN [value |-> Number(value[1]), format |-> "format_green"]
        ELSE IF value[1] >= 100 * LowThreshold
        THEN [value |-> Number(value[1]), format |-> "format_yellow"]
        ELSE IF value[1] > 0
        THEN [value |-> Number(value[1]), format |-> "format_red"]
        ELSE White

\* what worksheet.write is called with for one cell of a day column
written_cell(cell_value) ==
    IF cell_value \in {NaN, EmptyMarker, NoneCell} THEN White
    ELSE LET value == float_of_cell(cell_value)
         IN  IF value = None THEN White
             ELSE IF value[1] >= 100 * HighThreshold
             THEN [value |-> Number(value[1]), format |-> "format_green"]
             ELSE IF value[1] >= 100 * LowThreshold
             THEN [value |-> Number(value[1]), format |-> "format_yellow"]
             ELSE IF value[1] > 0
             THEN [value |-> Number(value[1]), format |-> "format_red"]
             ELSE White

\* the columns of pd.DataFrame(data): the keys of the dicts, first seen first
frame_columns(data) ==
    LET keys == Flatten([r \in DOMAIN data |->
                           [i \in DOMAIN data[r] |-> data[r][i].key]])
    IN  SelectSeq([i \in DOMAIN keys |->
                     IF \E j \in 1..(i - 1) : keys[j] = keys[i] THEN None ELSE Some(keys[i])],
                  LAMBDA k : k # None)

\* df.iloc[row_idx][col]: NaN where the row's dict lacks the column
frame_cell(row, col) ==
    LET has == {i \in DOMAIN row : row[i].key = col}
    IN  IF has = {} THEN NaN ELSE row[MaxOf(has)].value

\* the writes of the loop over the rows and the day columns
apply_heatmap(data) ==
    LET columns == frame_columns(data)
        day_columns == SelectSeq(columns, LAMBDA c : is_day_column(c[1]))
    IN  [r \in DOMAIN data |->
           [c \in DOMAIN day_columns |->
              [key |-> day_columns[c][1],
               cell |-> frame_cell(data[r], day_columns[c][1]),
               written |-> written_cell(frame_cell(data[r], day_columns[c][1]))]]]

\* "N/A" and "2"
TextValues == {<<78, 47, 65>>, <<50>>}

SheetCellValues ==
    {EmptyMarker, NoneCell} \cup {Text(t) : t \in TextValues}
    \cup {Number(h) : h \in {0, 150, 200, 299, 300, 450}}

\* a row of the sheet: a dict with no day column, with the column "9",
\* or with the column "40"
SheetRowValues ==
    {<<>>} \cup {<<[key |-> k, value |-> v]>> : k \in {str(9), str(40)}, v \in SheetCellValues}

\* ------------------------------------------------------------------------
\* State: one ProcessPDPDataUseCase.execute call, and one heatmap build
\* ------------------------------------------------------------------------
VARIABLES
    pc,                \* position in execute
    call_data,         \* None, or Some(list) once the call fetch returned
    pdp_records,       \* None, or Some(list) once the PDP fetch returned
    enriched_records,  \* None, or Some(list) once enrichment returned
    csv_file,          \* None, or Some(rows) once the CSV was written
    response,          \* None, or Some(PDPResponseDTO) once execute returned
    hm_builder,        \* "idle", or the heatmap builder that was called
    hm_input,          \* None, or Some(argument) of the builder
    hm_headers,        \* None, or Some(heatmap_headers) of generate_pdp_report
    hm_detailed,       \* None, or Some(detailed_data) of generate_pdp_report
    hm_result,         \* None, or what the builder returned or raised
    hm_styles,         \* None, or Some(writes) of ExcelGenerator._apply_heatmap
    repo_name,         \* "idle", or the repository whose fetch was called
    repo_rows,         \* None, or Some(rows) the data source returned
    repo_result,       \* None, or what the fetch returned or raised
    now,               \* the wall clock, in ticks
    run_pc,            \* per concurrent run: "idle", "ready" or "done"
    run_writer,        \* per run: the operation that writes its output file
    run_records,       \* per run: the records its output is derived from
    run_path,          \* per run: None, or Some(path) of the file it wrote
    files,             \* the output directory: path -> [writer, records]
    route_pc,          \* "waiting", "handling" or "responded"
    route_request,     \* None, or Some(parameters) of the POST
    route_response,    \* None, or Some(answer) of the route
    ctor_args,         \* None, or Some(keyword arguments) of a PDPRecord(...)
    ctor_result,       \* None, or what the constructor returned or raised
    auth_clock,        \* the wall clock of AuthClient, in minutes
    auth_token,        \* self._token: None, or Some(token)
    auth_expiry,       \* self._token_expiry: None, or Some(minute)
    auth_pc,           \* per caller of get_access_token: "idle", "posting", "done"
    auth_seen,         \* per caller: what its last call found cached, and when
    auth_ret,          \* per caller: None, or what its last call returned or raised
    auth_posts,        \* the number of POSTs sent to the authentication endpoint
    http_pc,           \* HttpClient.get: idle, attempt, sleeping, done
    http_attempt_number, \* tenacity's attempt_number of the call
    http_log,          \* what each attempt of the call met, in order
    http_result,       \* what the call gave its caller, or None
    tx_pc,             \* get_transaction: idle, acquiring, starting, body, committing, rolling_back, done
    tx_log,            \* the calls made on the transaction object, in order
    tx_body,           \* how the caller's body ended, or None
    tx_caught,         \* the exception the except clause caught, or None
    tx_result,         \* what the caller of the with-block received, or None
    pg_initialized,    \* PostgresManager._initialized
    pg_pool,           \* PostgresManager.pool: None or the pool's number
    pg_made,           \* how many pools create_pool was asked for so far
    pg_creates,        \* how many of them since the last close_pool ended
    pg_pc,             \* each coroutine's position in its call
    pg_op,             \* the method each coroutine called
    pg_seen,           \* _initialized as each coroutine's call found it
    pg_created,        \* whether each coroutine's call asked for a pool
    pg_ret             \* what each coroutine's call gave, or None

\* the concurrent runs
Runs == {1, 2}

\* the coroutines that call AuthClient.get_access_token
Callers == {1, 2}

exec_vars == <<pc, call_data, pdp_records, enriched_records, csv_file, response>>
hm_vars == <<hm_builder, hm_input, hm_headers, hm_detailed, hm_result, hm_styles>>
repo_vars == <<repo_name, repo_rows, repo_result>>
run_vars == <<now, run_pc, run_writer, run_records, run_path, files>>
route_vars == <<route_pc, route_request, route_response>>
ctor_vars == <<ctor_args, ctor_result>>
auth_vars == <<auth_clock, auth_token, auth_expiry, auth_pc, auth_seen, auth_ret, auth_posts>>
http_vars == <<http_pc, http_attempt_number, http_log, http_result>>
tx_vars == <<tx_pc, tx_log, tx_body, tx_caught, tx_result>>
pg_vars == <<pg_initialized, pg_pool, pg_made, pg_creates, pg_pc, pg_op, pg_seen, pg_created, pg_ret>>
vars == <<pc, call_data, pdp_records, enriched_records, csv_file, response,
          hm_builder, hm_input, hm_headers, hm_detailed, hm_result, hm_styles,
          repo_name, repo_rows, repo_result,
          now, run_pc, run_writer, run_records, run_path, files,
          route_pc, route_request, route_response,
          ctor_args, ctor_result,
          auth_clock, auth_token, auth_expiry, auth_pc, auth_seen, auth_ret, auth_posts,
          http_pc, http_attempt_number, http_log, http_result,
          tx_pc, tx_log, tx_body, tx_caught, tx_result,
          pg_initialized, pg_pool, pg_made, pg_creates, pg_pc, pg_op, pg_seen, pg_created, pg_ret>>

Init ==
    /\ pc = "fetch_calls"
    /\ call_data = None
    /\ pdp_records = None
    /\ enriched_records = None
    /\ csv_file = None
    /\ response = None
    /\ hm_builder = "idle"
    /\ hm_input = None
    /\ hm_headers = None
    /\ hm_detailed = None
    /\ hm_result = None
    /\ hm_styles = None
    /\ repo_name = "idle"
    /\ repo_rows = None
    /\ repo_result = None
    /\ now = 0
    /\ run_pc = [e \in Runs |-> "idle"]
    /\ run_writer = [e \in Runs |-> ""]
    /\ run_records = [e \in Runs |-> <<>>]
    /\ run_path = [e \in Runs |-> None]
    /\ files = <<>>
    /\ route_pc = "waiting"
    /\ route_request = None
    /\ route_response = None
    /\ ctor_args = None
    /\ ctor_result = None
    /\ auth_clock = 0
    /\ auth_token = None
    /\ auth_expiry = None
    /\ auth_pc = [c \in Callers |-> "idle"]
    /\ auth_seen = [c \in Callers |-> None]
    /\ auth_ret = [c \in Callers |-> None]
    /\ auth_posts = 0
    /\ http_pc = "idle"
    /\ http_attempt_number = 0
    /\ http_log = <<>>
    /\ http_result = None
    /\ tx_pc = "idle"
    /\ tx_log = <<>>
    /\ tx_body = None
    /\ tx_caught = None
    /\ tx_result = None
    /\ pg_initialized = FALSE
    /\ pg_pool = None
    /\ pg_made = 0
    /\ pg_creates = 0
    /\ pg_pc = [c \in Callers |-> "idle"]
    /\ pg_op = [c \in Callers |-> "none"]
    /\ pg_seen = [c \in Callers |-> FALSE]
    /\ pg_created = [c \in Callers |-> FALSE]
    /\ pg_ret = [c \in Callers |-> None]

\* the failure answered as an empty result without a message
FailAsEmpty(cause) ==
    /\ response' = Some(PDPResponseDTO_empty(<<>>))
    /\ pc' = "done"

\* a failure after which execute goes on to the enrichment
FailAndContinue(cause) ==
    /\ response' = Some(PDPResponseDTO_with_error(FailedToProcess(cause)))
    /\ pc' = "enrich"

\* the except clause of execute
Fail(cause) ==
    /\ response' = Some(PDPResponseDTO_with_error(FailedToProcess(cause)))
    /\ pc' = "done"

\* a <= b on dates
DateLeq(a, b) ==
    \/ a.year < b.year
    \/ a.year = b.year /\ a.month < b.month
    \/ a.year = b.year /\ a.month = b.month /\ a.day <= b.day

\* the rows of PostgresCallRepository.get_by_date_range come ORDER BY date
\* (the order of emails within a date is the collation's)
OrderedByDate(calls) ==
    \A i, j \in DOMAIN calls : i < j => DateLeq(calls[i].call_date, calls[j].call_date)

\* call_data = await self._call_repository.get_by_date_range(...)
FetchCalls ==
    /\ pc = "fetch_calls"
    /\ \E calls \in {c \in SeqsUpTo(CallValues, MaxCalls) : OrderedByDate(c)} :
         /\ call_data' = Some(calls)
         /\ IF calls = <<>>
            THEN /\ response' = Some(PDPResponseDTO_empty(
                                   <<"No call data found for the specified period">>))
                 /\ pc' = "done"
            ELSE /\ pc' = "fetch_pdps"
                 /\ UNCHANGED response
    /\ UNCHANGED <<pdp_records, enriched_records, csv_file>>
    /\ UNCHANGED <<hm_vars, repo_vars, run_vars, route_vars, ctor_vars, auth_vars, http_vars, tx_vars, pg_vars>>

FetchCallsFails ==
    /\ pc = "fetch_calls"
    /\ Fail("Failed to fetch call data")
    /\ UNCHANGED <<call_data, pdp_records, enriched_records, csv_file>>
    /\ UNCHANGED <<hm_vars, repo_vars, run_vars, route_vars, ctor_vars, auth_vars, http_vars, tx_vars, pg_vars>>

\* pdp_records = await self._pdp_repository.get_by_filters(...)
FetchPdps ==
    /\ pc = "fetch_pdps"
    /\ \E pdps \in SeqsUpTo(PdpRecordValues, MaxPdp) : pdp_records' = Some(pdps)
    /\ pc' = "enrich"
    /\ UNCHANGED <<call_data, enriched_records, csv_file, response>>
    /\ UNCHANGED <<hm_vars, repo_vars, run_vars, route_vars, ctor_vars, auth_vars, http_vars, tx_vars, pg_vars>>

FetchPdpsFails ==
    /\ pc = "fetch_pdps"
    /\ Fail("Failed to fetch PDP records")
    /\ UNCHANGED <<call_data, pdp_records, enriched_records, csv_file>>
    /\ UNCHANGED <<hm_vars, repo_vars, run_vars, route_vars, ctor_vars, auth_vars, http_vars, tx_vars, pg_vars>>

\* enriched_records = await self._enrich_with_call_data(pdp_records, call_data)
Enrich ==
    /\ pc = "enrich"
    /\ LET r == enrich_with_call_data(pdp_records[1], call_data[1])
       IN  IF r.raised
           THEN Fail(r.exc) /\ UNCHANGED enriched_records
           ELSE /\ enriched_records' = Some(r.value)
                /\ pc' = "save"
                /\ UNCHANGED response
    /\ UNCHANGED <<call_data, pdp_records, csv_file>>
    /\ UNCHANGED <<hm_vars, repo_vars, run_vars, route_vars, ctor_vars, auth_vars, http_vars, tx_vars, pg_vars>>

\* csv_path = await self._save_to_csv(enriched_records)
SaveToCsv ==
    /\ pc = "save"
    /\ csv_file' = Some([i \in DOMAIN enriched_records[1] |->
                           CsvRow(enriched_records[1][i])])
    /\ pc' = "respond"
    /\ UNCHANGED <<call_data, pdp_records, enriched_records, response>>
    /\ UNCHANGED <<hm_vars, repo_vars, run_vars, route_vars, ctor_vars, auth_vars, http_vars, tx_vars, pg_vars>>

\* return PDPResponseDTO(total_records=..., total_pdps=..., ...)
Respond ==
    /\ pc = "respond"
    /\ LET records == enriched_records[1]
           dto == PDPResponseDTO(
                    [total_records |-> Len(records),
                     total_pdps |-> SumSeq([i \in DOMAIN records |-> records[i].pdp_count]),
                     total_amount |-> 0,
                     excel_file_path |-> CsvPath,
                     processing_time_seconds |-> 0,
                     errors |-> None])
       IN  IF dto.raised
           THEN Fail(dto.exc)
           ELSE response' = Some(dto.value) /\ pc' = "done"
    /\ UNCHANGED <<call_data, pdp_records, enriched_records, csv_file>>
    /\ UNCHANGED <<hm_vars, repo_vars, run_vars, route_vars, ctor_vars, auth_vars, http_vars, tx_vars, pg_vars>>

Next ==
    \/ FetchCalls
    \/ FetchCallsFails
    \/ FetchPdps
    \/ FetchPdpsFails
    \/ Enrich
    \/ SaveToCsv
    \/ Respond

Spec == Init /\ [][Next]_vars

\* ------------------------------------------------------------------------
\* The heatmap builders, each called once on a list of records
\* ------------------------------------------------------------------------
\* ExcelService.generate_pdp_report: the rows of the detail sheet, the
\* heatmap rows and their headers
GenerateHeatmapSheet ==
    /\ hm_builder = "idle"
    /\ \E records \in SeqsUpTo(HmRecordValues, MaxHm) :
         /\ hm_input' = Some(records)
         /\ hm_result' = [raised |-> FALSE, value |-> prepare_heatmap_data(records)]
         /\ hm_detailed' = Some(prepare_detailed_data(records))
         /\ hm_headers' = Some(heatmap_headers(records))
    /\ hm_builder' = "ExcelService"
    /\ UNCHANGED hm_styles
    /\ UNCHANGED <<exec_vars, repo_vars, run_vars, route_vars, ctor_vars, auth_vars, http_vars, tx_vars, pg_vars>>

\* PandasTransformationService.create_productivity_heatmap
CreateProductivityHeatmap ==
    /\ hm_builder = "idle"
    /\ \E records \in SeqsUpTo(HmRecordValues, MaxHm) :
         /\ hm_input' = Some(records)
         /\ hm_result' = [raised |-> FALSE, value |-> create_productivity_heatmap(records)]
    /\ hm_builder' = "PandasTransformationService"
    /\ UNCHANGED <<hm_headers, hm_detailed, hm_styles>>
    /\ UNCHANGED <<exec_vars, repo_vars, run_vars, route_vars, ctor_vars, auth_vars, http_vars, tx_vars, pg_vars>>

\* HeatmapFormatter.format_productivity_heatmap
FormatProductivityHeatmap ==
    /\ hm_builder = "idle"
    /\ \E data \in SeqsUpTo(HmDataValues, MaxHm), period \in MonthValues :
         LET pivot == format_productivity_heatmap(data, period[2], period[1])
         IN  /\ hm_input' = Some(data)
             /\ IF pivot.raised
                THEN hm_result' = pivot
                ELSE \E sorted \in sort_values_total_desc(pivot.value) :
                       hm_result' = [raised |-> FALSE, value |-> sorted]
    /\ hm_builder' = "HeatmapFormatter"
    /\ UNCHANGED <<hm_headers, hm_detailed, hm_styles>>
    /\ UNCHANGED <<exec_vars, repo_vars, run_vars, route_vars, ctor_vars, auth_vars, http_vars, tx_vars, pg_vars>>

\* ExcelGenerator._apply_heatmap on the data of a sheet
ApplyHeatmap ==
    /\ hm_builder = "idle"
    /\ \E data \in SeqsUpTo(SheetRowValues, MaxHm) :
         /\ hm_input' = Some(data)
         /\ hm_styles' = Some(apply_heatmap(data))
    /\ hm_builder' = "ExcelGenerator"
    /\ UNCHANGED <<hm_headers, hm_detailed, hm_result>>
    /\ UNCHANGED <<exec_vars, repo_vars, run_vars, route_vars, ctor_vars, auth_vars, http_vars, tx_vars, pg_vars>>

HeatmapNext ==
    \/ GenerateHeatmapSheet
    \/ CreateProductivityHeatmap
    \/ FormatProductivityHeatmap
    \/ ApplyHeatmap

HeatmapSpec == Init /\ [][HeatmapNext]_vars

\* ------------------------------------------------------------------------
\* The two record-based builders on the hours of one agent
\* ------------------------------------------------------------------------
MaxHours == 3

\* the records of one agent on one day: none, or one record for each of
\* the hours 9, 10, ..., the first of them with all the day's activity
DayBlockValues(date) ==
    {<<>>} \cup
    { [i \in 1..h |->
         [dni |-> Dni111, agent_name |-> NameAna, record_date |-> date,
          hour |-> 8 + i, pdp_count |-> IF i = 1 THEN c ELSE 0]] :
      h \in 1..MaxHours, c \in {1, 2, 3} }

\* the records of the agent over two days
HourlyRecordLists ==
    { a \o b : a \in DayBlockValues(Date(2025, 5, 9)),
               b \in DayBlockValues(Date(2025, 5, 10)) }

\* ExcelService.generate_pdp_report on the records of one agent
GenerateHeatmapSheetHourly ==
    /\ hm_builder = "idle"
    /\ \E records \in HourlyRecordLists :
         /\ hm_input' = Some(records)
         /\ hm_result' = [raised |-> FALSE, value |-> prepare_heatmap_data(records)]
         /\ hm_detailed' = Some(prepare_detailed_data(records))
         /\ hm_headers' = Some(heatmap_headers(records))
    /\ hm_builder' = "ExcelService"
    /\ UNCHANGED hm_styles
    /\ UNCHANGED <<exec_vars, repo_vars, run_vars, route_vars, ctor_vars, auth_vars, http_vars, tx_vars, pg_vars>>

\* PandasTransformationService.create_productivity_heatmap on them
CreateProductivityHeatmapHourly ==
    /\ hm_builder = "idle"
    /\ \E records \in HourlyRecordLists :
         /\ hm_input' = Some(records)
         /\ hm_result' = [raised |-> FALSE, value |-> create_productivity_heatmap(records)]
    /\ hm_builder' = "PandasTransformationService"
    /\ UNCHANGED <<hm_headers, hm_detailed, hm_styles>>
    /\ UNCHANGED <<exec_vars, repo_vars, run_vars, route_vars, ctor_vars, auth_vars, http_vars, tx_vars, pg_vars>>

HourlyNext ==
    \/ GenerateHeatmapSheetHourly
    \/ CreateProductivityHeatmapHourly

HourlySpec == Init /\ [][HourlyNext]_vars

\* ------------------------------------------------------------------------
\* The repositories, each called once: rows of a data source mapped to
\* entities
\* ------------------------------------------------------------------------
MaxRows == 3

\* what a raise leaves behind
Raised(exc) == [raised |-> TRUE, exc |-> exc]
Returned(value) == [raised |-> FALSE, value |-> value]

\* [a-zA-Z0-9._%+-] and [a-zA-Z0-9.-] and [a-zA-Z] of the email pattern
EmailLetter(c) == c \in 65..90 \/ c \in 97..122
EmailLocalChar(c) == EmailLetter(c) \/ c \in 48..57 \/ c \in {46, 95, 37, 43, 45}
EmailDomainChar(c) == EmailLetter(c) \/ c \in 48..57 \/ c \in {46, 45}

\* ^[a-zA-Z0-9._%+-]+@[a-zA-Z0-9.-]+\.[a-zA-Z]{2,}$ : an '@' at a, a '.'
\* at d, one or more characters before a and between them, two or more
\* letters after d
email_pattern_match(v) ==
    \E a, d \in DOMAIN v :
        /\ v[a] = 64 /\ v[d] = 46
        /\ a >= 2 /\ d >= a + 2 /\ Len(v) >= d + 2
        /\ \A i \in 1..(a - 1) : EmailLocalChar(v[i])
        /\ \A i \in (a + 1)..(d - 1) : EmailDomainChar(v[i])
        /\ \A i \in (d + 1)..Len(v) : EmailLetter(v[i])

\* Email(value): __post_init__ rejects the empty and the malformed text
Email(value) ==
    IF value = <<>> THEN Raised("ValueError")
    ELSE IF ~email_pattern_match(value) THEN Raised("ValueError")
    ELSE Returned(value)

ServiceTypes == {"MOVIL", "FIJA", "Sin Servicio"}

\* raise ValueError(message)
ValueError(message) == [raised |-> TRUE, exc |-> "ValueError", message |-> message]

\* PDPRecord(...): __post_init__ on the count, the due day and the service
PDPRecord(kw) ==
    IF kw.pdp_count < 0 THEN ValueError("PDP count cannot be negative")
    ELSE IF kw.due_day < 0 \/ kw.due_day > 31
    THEN ValueError("Due day must be between 0 and 31")
    ELSE IF kw.service_type \notin ServiceTypes
    THEN ValueError("Invalid service type")
    ELSE Returned([agent_email |-> kw.agent_email, record_date |-> kw.record_date,
                   due_day |-> kw.due_day, service_type |-> kw.service_type,
                   pdp_count |-> kw.pdp_count,
                   total_connected_seconds |-> None, pdp_per_hour |-> None])

\* BigQueryPDPRepository._map_row_to_entity: the arguments are evaluated in
\* the order written, a missing key raises KeyError
BigQueryPDPRepository_map_row_to_entity(row) ==
    IF "usuario" \notin DOMAIN row THEN Raised("KeyError")
    ELSE LET email == Email(row.usuario)
         IN  IF email.raised THEN email
             ELSE IF ~({"fecha", "servicio", "vencimiento", "cant_pdp"} \subseteq DOMAIN row)
             THEN Raised("KeyError")
             ELSE PDPRecord([agent_email |-> email.value, record_date |-> row.fecha,
                             service_type |-> row.servicio, due_day |-> row.vencimiento,
                             pdp_count |-> row.cant_pdp])

AgentCallDataFields ==
    {"agent_email", "call_date", "total_connected_seconds", "total_time_hms"}

\* AgentCallData(...): every field is required; __post_init__ rejects
\* negative connected seconds
AgentCallData(kw) ==
    IF DOMAIN kw # AgentCallDataFields THEN Raised("TypeError")
    ELSE IF kw.total_connected_seconds < 0 THEN Raised("ValueError")
    ELSE Returned(kw)

\* PostgresCallRepository._map_row_to_entity
PostgresCallRepository_map_row_to_entity(row) ==
    IF "email" \notin DOMAIN row THEN Raised("KeyError")
    ELSE LET email == Email(row.email)
         IN  IF email.raised THEN email
             ELSE IF ~({"date", "total_seconds"} \subseteq DOMAIN row)
             THEN Raised("KeyError")
             ELSE AgentCallData([agent_email |-> email.value, call_date |-> row.date,
                                 total_connected_seconds |-> row.total_seconds])

\* [f(row) for row in rows], given the outcome of f on each row: the first
\* raise ends the comprehension
list_comprehension(outcomes) ==
    IF \E i \in DOMAIN outcomes : outcomes[i].raised
    THEN LET first == CHOOSE i \in DOMAIN outcomes :
                        /\ outcomes[i].raised
                        /\ \A j \in 1..(i - 1) : ~outcomes[j].raised
         IN  outcomes[first]
    ELSE Returned([i \in DOMAIN outcomes |-> outcomes[i].value])

\* raise RepositoryException(f"...: {str(e)}") from e
RepositoryException(cause) ==
    [raised |-> TRUE, exc |-> "RepositoryException", cause |-> cause]

\* the methods class PDPQueries defines
PDPQueriesMethods == {"get_pdps_by_date_range"}

\* BigQueryPDPRepository.get_by_filters on the rows the client returns
get_by_filters(rows) ==
    IF "get_pdps_by_filters" \notin PDPQueriesMethods
    THEN RepositoryException("AttributeError")
    ELSE LET r == list_comprehension(
                    [i \in DOMAIN rows |->
                       BigQueryPDPRepository_map_row_to_entity(rows[i])])
         IN  IF r.raised THEN RepositoryException(r.exc) ELSE r

\* PostgresCallRepository.get_by_date_range on the rows fetch_all returns
get_by_date_range(rows) ==
    LET r == list_comprehension(
               [i \in DOMAIN rows |->
                  PostgresCallRepository_map_row_to_entity(rows[i])])
    IN  IF r.raised THEN RepositoryException(r.exc) ELSE r

\* "ab": a text the email pattern rejects
EmailMalformed == <<97, 98>>

\* rows of the BigQuery result: well-formed ones, one without the key
\* cant_pdp, one with a malformed usuario, one with a negative cant_pdp
BigQueryRowValues ==
    { [usuario |-> u, fecha |-> Date(2025, 5, 9), servicio |-> "MOVIL",
       vencimiento |-> 5, cant_pdp |-> c] :
      u \in {EmailLower, EmailUpper, EmailMalformed}, c \in {0, 3} }
    \cup { [usuario |-> EmailLower, fecha |-> Date(2025, 5, 9), servicio |-> "MOVIL",
            vencimiento |-> 5, cant_pdp |-> -1],
           [usuario |-> EmailLower, fecha |-> Date(2025, 5, 9), servicio |-> "MOVIL",
            vencimiento |-> 5] }

\* rows of agent_connected_times: well-formed ones, one without the key
\* total_seconds, some with a malformed email, one with negative seconds
PostgresRowValues ==
    { [email |-> u, date |-> Date(2025, 5, 9), total_seconds |-> t] :
      u \in {EmailLower, EmailUpper, EmailMalformed}, t \in {90, 125} }
    \cup { [email |-> EmailLower, date |-> Date(2025, 5, 9), total_seconds |-> -1],
           [email |-> EmailLower, date |-> Date(2025, 5, 9)] }

\* rows = await self._client.execute_query(...); return [...]
GetByFilters ==
    /\ repo_name = "idle"
    /\ \E rows \in SeqsUpTo(BigQueryRowValues, MaxRows) :
         /\ repo_rows' = Some(rows)
         /\ repo_result' = Some(get_by_filters(rows))
    /\ repo_name' = "BigQueryPDPRepository"
    /\ UNCHANGED <<exec_vars, hm_vars, run_vars, route_vars, ctor_vars, auth_vars, http_vars, tx_vars, pg_vars>>

\* rows = await self._session_manager.fetch_all(...); return [...]
GetByDateRange ==
    /\ repo_name = "idle"
    /\ \E rows \in SeqsUpTo(PostgresRowValues, MaxRows) :
         /\ repo_rows' = Some(rows)
         /\ repo_result' = Some(get_by_date_range(rows))
    /\ repo_name' = "PostgresCallRepository"
    /\ UNCHANGED <<exec_vars, hm_vars, run_vars, route_vars, ctor_vars, auth_vars, http_vars, tx_vars, pg_vars>>

RepositoryNext ==
    \/ GetByFilters
    \/ GetByDateRange

RepositorySpec == Init /\ [][RepositoryNext]_vars

\* ------------------------------------------------------------------------
\* Concurrent runs: each writes one output file named after the clock
\* ------------------------------------------------------------------------
MaxClock == 3

\* the clock ticks twice a second
TicksPerSecond == 2

\* datetime.now().strftime("%Y%m%d_%H%M%S"): the instant cut to its second
timestamp(t) == t \div TicksPerSecond

\* output_dir / f"enriched_pdp_data_{timestamp}.csv"
csv_filename(t) ==
    [dir |-> "output/csv", name |-> "enriched_pdp_data_", timestamp |-> timestamp(t),
     suffix |-> ".csv"]

\* self._output_path / f"pdp_report_{timestamp}.xlsx"
report_filepath(t) ==
    [dir |-> "output", name |-> "pdp_report_", timestamp |-> timestamp(t),
     suffix |-> ".xlsx"]

\* open(path, "w") and the writes up to close: the file at path is
\* created or truncated, then holds what the writer derived from records
write_file(fs, path, writer, records) ==
    [p \in DOMAIN fs \cup {path} |->
       IF p = path THEN [writer |-> writer, records |-> records] ELSE fs[p]]

\* the records of a run: none, or one record of one of two agents
RunRecordValues ==
    {<<>>} \cup
    { <<[agent_email |-> u, record_date |-> Date(2025, 5, 9), pdp_count |-> 3,
         total_connected_seconds |-> None, pdp_per_hour |-> None]>> :
      u \in {EmailLower, EmailUpper} }

RunWriterValues == {"_save_to_csv", "generate_pdp_report"}

\* time passes
Tick ==
    /\ now < MaxClock
    /\ now' = now + 1
    /\ UNCHANGED <<run_pc, run_writer, run_records, run_path, files>>
    /\ UNCHANGED <<exec_vars, hm_vars, repo_vars, route_vars, ctor_vars, auth_vars, http_vars, tx_vars, pg_vars>>

\* a request arrives and its records are fetched (the awaits of a run)
RunBegin(e) ==
    /\ run_pc[e] = "idle"
    /\ \E w \in RunWriterValues, records \in RunRecordValues :
         /\ run_writer' = [run_writer EXCEPT ![e] = w]
         /\ run_records' = [run_records EXCEPT ![e] = records]
    /\ run_pc' = [run_pc EXCEPT ![e] = "ready"]
    /\ UNCHANGED <<now, run_path, files>>
    /\ UNCHANGED <<exec_vars, hm_vars, repo_vars, route_vars, ctor_vars, auth_vars, http_vars, tx_vars, pg_vars>>

\* ProcessPDPDataUseCase._save_to_csv: no await between reading the clock
\* and closing the file
RunSaveToCsv(e) ==
    /\ run_pc[e] = "ready"
    /\ run_writer[e] = "_save_to_csv"
    /\ LET filename == csv_filename(now)
       IN  /\ files' = write_file(files, filename, e, run_records[e])
           /\ run_path' = [run_path EXCEPT ![e] = Some(filename)]
    /\ run_pc' = [run_pc EXCEPT ![e] = "done"]
    /\ UNCHANGED <<now, run_writer, run_records>>
    /\ UNCHANGED <<exec_vars, hm_vars, repo_vars, route_vars, ctor_vars, auth_vars, http_vars, tx_vars, pg_vars>>

\* ExcelService.generate_pdp_report: the same, for the workbook
RunGeneratePdpReport(e) ==
    /\ run_pc[e] = "ready"
    /\ run_writer[e] = "generate_pdp_report"
    /\ LET filepath == report_filepath(now)
       IN  /\ files' = write_file(files, filepath, e, run_records[e])
           /\ run_path' = [run_path EXCEPT ![e] = Some(filepath)]
    /\ run_pc' = [run_pc EXCEPT ![e] = "done"]
    /\ UNCHANGED <<now, run_writer, run_records>>
    /\ UNCHANGED <<exec_vars, hm_vars, repo_vars, route_vars, ctor_vars, auth_vars, http_vars, tx_vars, pg_vars>>

ConcurrentNext ==
    \/ Tick
    \/ \E e \in Runs : RunBegin(e)
    \/ \E e \in Runs : RunSaveToCsv(e)
    \/ \E e \in Runs : RunGeneratePdpReport(e)

ConcurrentSpec == Init /\ [][ConcurrentNext]_vars

\* ------------------------------------------------------------------------
\* The route POST /pdp/process
\* ------------------------------------------------------------------------
RouteDateValues ==
    {Date(2024, 12, 31), Date(2025, 5, 1), Date(2025, 5, 31), Date(2025, 6, 1)}

\* the fields of the dataclass PDPRequestDTO
PDPRequestDTOFields == {"reference_date"}

\* PDPRequestDTO(...): a TypeError for an unknown or a missing argument
PDPRequestDTO(kw) ==
    IF DOMAIN kw = PDPRequestDTOFields THEN Returned(kw) ELSE Raised("TypeError")

\* raise HTTPException(status_code=..., detail=...)
HTTPException(status_code, detail) ==
    [raised |-> TRUE, exc |-> "HTTPException", status_code |-> status_code,
     detail |-> detail]

\* what await use_case.execute(request) can do: return a response, or raise
UseCaseOutcomeValues ==
    { Returned(PDPResponseDTO_empty(<<>>)),
      Returned(PDPResponseDTO_with_error(FailedToProcess("KeyError"))),
      Raised("UseCaseException"), Raised("RuntimeError") }

\* the try block of process_pdp_data; executed tells whether the use case
\* was called
route_try(q, outcome) ==
    IF ~DateLeq(q.start_date, q.end_date)
    THEN [result |-> HTTPException(400, "Start date must be before or equal to end date"),
          executed |-> FALSE]
    ELSE LET request == PDPRequestDTO(
                           [start_date |-> q.start_date, end_date |-> q.end_date,
                            include_call_data |-> q.include_call_data,
                            generate_heatmap |-> q.generate_heatmap])
         IN  IF request.raised
             THEN [result |-> request, executed |-> FALSE]
             ELSE [result |-> outcome, executed |-> TRUE]

\* process_pdp_data: the try block, then its except clauses in order;
\* HTTPException is an Exception and not a UseCaseException
process_pdp_data(q, outcome) ==
    LET t == route_try(q, outcome)
    IN  IF ~t.result.raised
        THEN [status_code |-> 200, body |-> t.result.value, executed |-> t.executed]
        ELSE IF t.result.exc = "UseCaseException"
        THEN [status_code |-> 400, detail |-> "UseCaseException", executed |-> t.executed]
        ELSE [status_code |-> 500, detail |-> "Internal server error",
              executed |-> t.executed]

\* the query parameters of a POST, as FastAPI binds them
RequestArrives ==
    /\ route_pc = "waiting"
    /\ \E s \in RouteDateValues, e \in RouteDateValues, c \in BOOLEAN, h \in BOOLEAN :
         route_request' = Some([start_date |-> s, end_date |-> e,
                                include_call_data |-> c, generate_heatmap |-> h])
    /\ route_pc' = "handling"
    /\ UNCHANGED route_response
    /\ UNCHANGED <<exec_vars, hm_vars, repo_vars, run_vars, ctor_vars, auth_vars, http_vars, tx_vars, pg_vars>>

\* the handler runs to its return or raise
ProcessPdpData ==
    /\ route_pc = "handling"
    /\ \E outcome \in UseCaseOutcomeValues :
         route_response' = Some(process_pdp_data(route_request[1], outcome))
    /\ route_pc' = "responded"
    /\ UNCHANGED route_request
    /\ UNCHANGED <<exec_vars, hm_vars, repo_vars, run_vars, ctor_vars, auth_vars, http_vars, tx_vars, pg_vars>>

RouteNext ==
    \/ RequestArrives
    \/ ProcessPdpData

RouteSpec == Init /\ [][RouteNext]_vars

\* ------------------------------------------------------------------------
\* The entity constructor, called once
\* ------------------------------------------------------------------------
MaxDueDay == 33

\* the keyword arguments of a PDPRecord(...) call: due days around both
\* ends of the month, counts and service types on both sides of their checks
PDPRecordArgValues ==
    [agent_email : {EmailLower}, record_date : {Date(2025, 5, 9)},
     service_type : {"MOVIL", "Sin Servicio", "TV"},
     due_day : (-1)..MaxDueDay, pdp_count : {-1, 0, 3}]

\* PDPRecord(**kw)
ConstructPDPRecord ==
    /\ ctor_args = None
    /\ \E kw \in PDPRecordArgValues :
         /\ ctor_args' = Some(kw)
         /\ ctor_result' = Some(PDPRecord(kw))
    /\ UNCHANGED <<exec_vars, hm_vars, repo_vars, run_vars, route_vars, auth_vars, http_vars, tx_vars, pg_vars>>

EntityNext == ConstructPDPRecord

EntitySpec == Init /\ [][EntityNext]_vars

\* ------------------------------------------------------------------------
\* AuthClient: a token cached for 55 minutes, asked for by two coroutines
\* ------------------------------------------------------------------------
MaxAuthClock == 56

MaxPosts == 3

\* timedelta(minutes=55)
TokenLifetimeMinutes == 55

\* time passes in steps of about half the life of a token
ClockStepValues == {27, 28}

\* a condition that never finds the cached token usable
cached_token_never_usable(token, expiry, t) == FALSE

\* self._token and self._token_expiry and datetime.now() < self._token_expiry
cached_token_usable(token, expiry, t) ==
    token # None /\ expiry # None /\ t < expiry[1]

AuthClockAdvances ==
    /\ \E d \in ClockStepValues :
         /\ auth_clock + d <= MaxAuthClock
         /\ auth_clock' = auth_clock + d
    /\ UNCHANGED <<auth_token, auth_expiry, auth_pc, auth_seen, auth_ret, auth_posts>>
    /\ UNCHANGED <<exec_vars, hm_vars, repo_vars, run_vars, route_vars, ctor_vars, http_vars, tx_vars, pg_vars>>

\* get_access_token up to its return of the cached token, or up to the
\* await of the POST in _authenticate
GetAccessToken(c) ==
    /\ auth_pc[c] \in {"idle", "done"}
    /\ auth_seen' = [auth_seen EXCEPT ![c] =
                       Some([token |-> auth_token, expiry |-> auth_expiry,
                             at |-> auth_clock, posted |-> FALSE])]
    /\ IF cached_token_usable(auth_token, auth_expiry, auth_clock)
       THEN /\ auth_ret' = [auth_ret EXCEPT ![c] = Some(Returned(auth_token))]
            /\ auth_pc' = [auth_pc EXCEPT ![c] = "done"]
            /\ UNCHANGED auth_posts
       ELSE /\ auth_posts < MaxPosts
            /\ auth_posts' = auth_posts + 1
            /\ auth_pc' = [auth_pc EXCEPT ![c] = "posting"]
            /\ auth_ret' = [auth_ret EXCEPT ![c] = None]
    /\ UNCHANGED <<auth_clock, auth_token, auth_expiry>>
    /\ UNCHANGED <<exec_vars, hm_vars, repo_vars, run_vars, route_vars, ctor_vars, http_vars, tx_vars, pg_vars>>

\* the POST is answered: the idToken of the answer (None when it has none)
\* and its expiry are stored, and get_access_token returns self._token
AuthenticateReturns(c) ==
    /\ auth_pc[c] = "posting"
    /\ \E idToken \in {None, Some([by |-> c, n |-> auth_posts])} :
         /\ auth_token' = idToken
         /\ auth_ret' = [auth_ret EXCEPT ![c] = Some(Returned(idToken))]
    /\ auth_expiry' = Some(auth_clock + TokenLifetimeMinutes)
    /\ auth_seen' = [auth_seen EXCEPT ![c] = Some([auth_seen[c][1] EXCEPT !.posted = TRUE])]
    /\ auth_pc' = [auth_pc EXCEPT ![c] = "done"]
    /\ UNCHANGED <<auth_clock, auth_posts>>
    /\ UNCHANGED <<exec_vars, hm_vars, repo_vars, run_vars, route_vars, ctor_vars, http_vars, tx_vars, pg_vars>>

\* the POST fails: raise ExternalApiException, the cache is left as it was
AuthenticateRaises(c) ==
    /\ auth_pc[c] = "posting"
    /\ auth_ret' = [auth_ret EXCEPT ![c] = Some(Raised("ExternalApiException"))]
    /\ auth_seen' = [auth_seen EXCEPT ![c] = Some([auth_seen[c][1] EXCEPT !.posted = TRUE])]
    /\ auth_pc' = [auth_pc EXCEPT ![c] = "done"]
    /\ UNCHANGED <<auth_clock, auth_token, auth_expiry, auth_posts>>
    /\ UNCHANGED <<exec_vars, hm_vars, repo_vars, run_vars, route_vars, ctor_vars, http_vars, tx_vars, pg_vars>>

AuthNext ==
    \/ AuthClockAdvances
    \/ \E c \in Callers : GetAccessToken(c)
    \/ \E c \in Callers : AuthenticateReturns(c)
    \/ \E c \in Callers : AuthenticateRaises(c)

AuthSpec == Init /\ [][AuthNext]_vars

\* ------------------------------------------------------------------------
\* HttpClient.get under tenacity's retry decorator
\* ------------------------------------------------------------------------
API_MAX_RETRIES == 3

ExternalApiException(message) == [type |-> "ExternalApiException", message |-> message]

RetryError == [type |-> "RetryError", message |-> "RetryError"]

\* response.text values, as sequences of characters
ResponseTextValues ==
    { <<"{", "}">>, <<"[", "]">>, <<"x">>, <<>>,
      <<"<", "b", "r", ">", "{", "}">>,
      <<"<", "b", "r", ">", "[", "]">>,
      <<"<", "b", "r", ">">> }

StatusValues == {200, 404}

\* what one execution of the body can meet: _get_headers raising, client.get
\* raising one of the httpx errors, or a response
AttemptValues ==
    [kind : {"token_error", "ReadTimeout", "ConnectTimeout", "PoolTimeout",
             "ConnectError"}]
    \cup [kind : {"response"}, status : StatusValues, text : ResponseTextValues]

startswith_br(text) == Len(text) >= 3 /\ SubSeq(text, 1, 3) = <<"<", "b", "r">>

\* str.find("{") as a 1-based position, 0 when absent
find_brace(text) ==
    IF \E i \in 1..Len(text) : text[i] = "{"
    THEN CHOOSE i \in 1..Len(text) :
             text[i] = "{" /\ \A j \in 1..(i - 1) : text[j] # "{"
    ELSE 0

cleaned_text(text) ==
    IF startswith_br(text) /\ find_brace(text) # 0
    THEN SubSeq(text, find_brace(text), Len(text))
    ELSE text

\* json.loads over the texts above
json_loads(text) ==
    IF text = <<"{", "}">> THEN Returned([json |-> "object", members |-> <<>>])
    ELSE IF text = <<"[", "]">> THEN Returned([json |-> "array", members |-> <<>>])
    ELSE Raised("JSONDecodeError")

\* response.raise_for_status raises for 4xx and 5xx
is_error_status(status) == status >= 400 /\ status <= 599

\* one execution of the body of get
get_body(met) ==
    IF met.kind = "token_error"
    THEN Raised(ExternalApiException("Unexpected error calling API"))
    ELSE IF met.kind = "ReadTimeout"
    THEN Raised(ExternalApiException("API response timeout"))
    ELSE IF met.kind = "ConnectTimeout"
    THEN Raised(ExternalApiException("Could not connect to API server"))
    ELSE IF met.kind = "PoolTimeout"
    THEN Raised(ExternalApiException("Request timed out"))
    ELSE IF met.kind = "ConnectError"
    THEN Raised(ExternalApiException("Failed to connect to API"))
    ELSE IF is_error_status(met.status)
    THEN Raised(ExternalApiException("API request failed with status"))
    ELSE IF json_loads(cleaned_text(met.text)).raised
    THEN Raised(ExternalApiException("Unexpected error calling API"))
    ELSE Returned(json_loads(cleaned_text(met.text)).value)

stop_after_four_attempts(attempt_number) == attempt_number >= API_MAX_RETRIES + 1

stop_after_attempt(attempt_number) == attempt_number >= API_MAX_RETRIES

HttpGetCalled ==
    /\ http_pc = "idle"
    /\ http_pc' = "attempt"
    /\ http_attempt_number' = 1
    /\ UNCHANGED <<http_log, http_result>>
    /\ UNCHANGED <<exec_vars, hm_vars, repo_vars, run_vars, route_vars, ctor_vars, auth_vars, tx_vars, pg_vars>>

\* one attempt: the body runs, then tenacity returns its value, gives up
\* with RetryError, or goes to sleep before the next attempt
HttpAttempt ==
    /\ http_pc = "attempt"
    /\ \E met \in AttemptValues :
         /\ http_log' = Append(http_log, met)
         /\ IF ~get_body(met).raised
            THEN /\ http_result' = Some(get_body(met))
                 /\ http_pc' = "done"
            ELSE IF stop_after_attempt(http_attempt_number)
            THEN /\ http_result' = Some(Raised(RetryError))
                 /\ http_pc' = "done"
            ELSE /\ http_result' = http_result
                 /\ http_pc' = "sleeping"
    /\ UNCHANGED http_attempt_number
    /\ UNCHANGED <<exec_vars, hm_vars, repo_vars, run_vars, route_vars, ctor_vars, auth_vars, tx_vars, pg_vars>>

\* wait_exponential is over
HttpSleepEnds ==
    /\ http_pc = "sleeping"
    /\ http_pc' = "attempt"
    /\ http_attempt_number' = http_attempt_number + 1
    /\ UNCHANGED <<http_log, http_result>>
    /\ UNCHANGED <<exec_vars, hm_vars, repo_vars, run_vars, route_vars, ctor_vars, auth_vars, tx_vars, pg_vars>>

HttpNext == HttpGetCalled \/ HttpAttempt \/ HttpSleepEnds

HttpSpec == Init /\ [][HttpNext]_vars

\* ------------------------------------------------------------------------
\* PostgresManager.get_transaction around a caller's body
\* ------------------------------------------------------------------------
DatabaseException(message, cause) ==
    [type |-> "DatabaseException", message |-> message, cause |-> cause]

\* exceptions that derive from Exception, and those that derive from
\* BaseException only
ExceptionValues ==
    {"PostgresError", "UniqueViolationError", "InterfaceError",
     "ConnectionDoesNotExistError"}

BaseExceptionValues == {"CancelledError", "KeyboardInterrupt"}

\* an exception that reaches the caller as it was raised
Propagated(exc) == [type |-> exc, message |-> "", cause |-> ""]

\* the statuses conn.execute returns
StatusTextValues == {"INSERT 0 1", "UPDATE 2", "DELETE 0"}

\* except Exception as e
except_Exception(exc) == exc \in ExceptionValues

except_BaseException(exc) == exc \in ExceptionValues \cup BaseExceptionValues

\* the lazy initialize of line 66-67, then the with-block is entered
TxEnter ==
    /\ tx_pc = "idle"
    /\ \E initialize \in {"initialized", "created", "failed"} :
         IF initialize = "failed"
         THEN /\ tx_pc' = "done"
              /\ tx_result' = Some(Raised(DatabaseException(
                                  "PostgreSQL pool initialization failed", "PostgresError")))
         ELSE /\ tx_pc' = "acquiring"
              /\ tx_result' = tx_result
    /\ UNCHANGED <<tx_log, tx_body, tx_caught>>
    /\ UNCHANGED <<exec_vars, hm_vars, repo_vars, run_vars, route_vars, ctor_vars, auth_vars, http_vars, pg_vars>>

\* async with self.pool.acquire(): outside the try block
TxAcquire ==
    /\ tx_pc = "acquiring"
    /\ \/ /\ tx_pc' = "starting"
          /\ tx_result' = tx_result
       \/ \E exc \in ExceptionValues :
            /\ tx_pc' = "done"
            /\ tx_result' = Some(Raised(Propagated(exc)))
    /\ UNCHANGED <<tx_log, tx_body, tx_caught>>
    /\ UNCHANGED <<exec_vars, hm_vars, repo_vars, run_vars, route_vars, ctor_vars, auth_vars, http_vars, pg_vars>>

\* await transaction.start()
TxStart ==
    /\ tx_pc = "starting"
    /\ tx_log' = Append(tx_log, "start")
    /\ \/ /\ tx_pc' = "body"
          /\ tx_caught' = tx_caught
       \/ \E exc \in ExceptionValues :
            /\ tx_pc' = "rolling_back"
            /\ tx_caught' = Some(exc)
    /\ UNCHANGED <<tx_body, tx_result>>
    /\ UNCHANGED <<exec_vars, hm_vars, repo_vars, run_vars, route_vars, ctor_vars, auth_vars, http_vars, pg_vars>>

\* yield connection: the caller's body runs; what it raises is thrown into
\* the generator at the yield
TxBody ==
    /\ tx_pc = "body"
    /\ \/ \E status \in StatusTextValues :
            /\ tx_body' = Some(Returned(status))
            /\ tx_pc' = "committing"
            /\ UNCHANGED <<tx_caught, tx_result>>
       \/ \E exc \in ExceptionValues \cup BaseExceptionValues :
            /\ tx_body' = Some(Raised(exc))
            /\ IF except_Exception(exc)
               THEN /\ tx_pc' = "rolling_back"
                    /\ tx_caught' = Some(exc)
                    /\ tx_result' = tx_result
               ELSE /\ tx_pc' = "done"
                    /\ tx_caught' = tx_caught
                    /\ tx_result' = Some(Raised(Propagated(exc)))
    /\ UNCHANGED tx_log
    /\ UNCHANGED <<exec_vars, hm_vars, repo_vars, run_vars, route_vars, ctor_vars, auth_vars, http_vars, pg_vars>>

\* await transaction.commit(), inside the try block
TxCommit ==
    /\ tx_pc = "committing"
    /\ tx_log' = Append(tx_log, "commit")
    /\ \/ /\ tx_pc' = "done"
          /\ tx_result' = Some(tx_body[1])
          /\ tx_caught' = tx_caught
       \/ \E exc \in ExceptionValues :
            /\ tx_pc' = "rolling_back"
            /\ tx_caught' = Some(exc)
            /\ tx_result' = tx_result
    /\ UNCHANGED tx_body
    /\ UNCHANGED <<exec_vars, hm_vars, repo_vars, run_vars, route_vars, ctor_vars, auth_vars, http_vars, pg_vars>>

\* the except clause: await transaction.rollback(), then raise
TxRollback ==
    /\ tx_pc = "rolling_back"
    /\ tx_log' = Append(tx_log, "rollback")
    /\ tx_pc' = "done"
    /\ \/ tx_result' = Some(Raised(DatabaseException("Transaction failed", tx_caught[1])))
       \/ \E exc \in ExceptionValues : tx_result' = Some(Raised(Propagated(exc)))
    /\ UNCHANGED <<tx_body, tx_caught>>
    /\ UNCHANGED <<exec_vars, hm_vars, repo_vars, run_vars, route_vars, ctor_vars, auth_vars, http_vars, pg_vars>>

TxNext == TxEnter \/ TxAcquire \/ TxStart \/ TxBody \/ TxCommit \/ TxRollback

TxSpec == Init /\ [][TxNext]_vars

\* ------------------------------------------------------------------------
\* PostgresManager's pool: initialize, get_connection and close_pool called
\* by two coroutines, interleaved at every await
\* ------------------------------------------------------------------------
MaxPools == 3

PgFrame == UNCHANGED <<exec_vars, hm_vars, repo_vars, run_vars, route_vars, ctor_vars, auth_vars, http_vars, tx_vars>>

\* initialize up to its await: return when _initialized, else ask
\* asyncpg.create_pool for a pool
PgBeginInitialize(c, op, next_pc) ==
    /\ pg_op' = [pg_op EXCEPT ![c] = op]
    /\ pg_seen' = [pg_seen EXCEPT ![c] = pg_initialized]
    /\ pg_ret' = [pg_ret EXCEPT ![c] = None]
    /\ IF pg_initialized
       THEN /\ pg_pc' = [pg_pc EXCEPT ![c] = next_pc]
            /\ pg_created' = [pg_created EXCEPT ![c] = FALSE]
            /\ UNCHANGED <<pg_made, pg_creates>>
       ELSE /\ pg_made < MaxPools
            /\ pg_pc' = [pg_pc EXCEPT ![c] = "creating"]
            /\ pg_created' = [pg_created EXCEPT ![c] = TRUE]
            /\ pg_made' = pg_made + 1
            /\ pg_creates' = pg_creates + 1
    /\ UNCHANGED <<pg_initialized, pg_pool>>

\* await manager.initialize()
PgInitialize(c) ==
    /\ pg_pc[c] = "idle"
    /\ PgBeginInitialize(c, "initialize", "done")
    /\ PgFrame

\* async with manager.get_connection(): the lazy initialize of line 49-50,
\* which runs without suspension up to create_pool
PgGetConnection(c) ==
    /\ pg_pc[c] = "idle"
    /\ PgBeginInitialize(c, "get_connection", "acquiring")
    /\ PgFrame

\* create_pool answers: the pool is stored and _initialized set
PgPoolCreated(c) ==
    /\ pg_pc[c] = "creating"
    /\ pg_pool' = Some(pg_made)
    /\ pg_initialized' = TRUE
    /\ pg_pc' = [pg_pc EXCEPT ![c] =
                     IF pg_op[c] = "initialize" THEN "done" ELSE "acquiring"]
    /\ UNCHANGED <<pg_made, pg_creates, pg_op, pg_seen, pg_created, pg_ret>>
    /\ PgFrame

\* create_pool raises: DatabaseException, nothing stored
PgCreateFails(c) ==
    /\ pg_pc[c] = "creating"
    /\ pg_pc' = [pg_pc EXCEPT ![c] = "done"]
    /\ pg_ret' = [pg_ret EXCEPT ![c] = Some(Raised(DatabaseException(
                      "PostgreSQL pool initialization failed", "PostgresError")))]
    /\ UNCHANGED <<pg_initialized, pg_pool, pg_made, pg_creates, pg_op, pg_seen, pg_created>>
    /\ PgFrame

\* self.pool.acquire(): a connection of the stored pool, or DatabaseException
\* when the pool is gone
PgAcquire(c) ==
    /\ pg_pc[c] = "acquiring"
    /\ pg_pc' = [pg_pc EXCEPT ![c] = "done"]
    /\ pg_ret' = [pg_ret EXCEPT ![c] =
                     IF pg_pool = None
                     THEN Some(Raised(DatabaseException(
                              "Connection acquisition failed", "AttributeError")))
                     ELSE Some(Returned(pg_pool[1]))]
    /\ UNCHANGED <<pg_initialized, pg_pool, pg_made, pg_creates, pg_op, pg_seen, pg_created>>
    /\ PgFrame

\* close_pool up to its await
PgClosePool(c) ==
    /\ pg_pc[c] = "idle"
    /\ pg_op' = [pg_op EXCEPT ![c] = "close_pool"]
    /\ pg_seen' = [pg_seen EXCEPT ![c] = pg_initialized]
    /\ pg_created' = [pg_created EXCEPT ![c] = FALSE]
    /\ pg_ret' = [pg_ret EXCEPT ![c] = None]
    /\ pg_pc' = [pg_pc EXCEPT ![c] = IF pg_pool # None THEN "closing" ELSE "done"]
    /\ UNCHANGED <<pg_initialized, pg_pool, pg_made, pg_creates>>
    /\ PgFrame

\* pool.close() answers: _initialized and pool are reset
PgPoolClosed(c) ==
    /\ pg_pc[c] = "closing"
    /\ pg_initialized' = FALSE
    /\ pg_pool' = None
    /\ pg_creates' = 0
    /\ pg_pc' = [pg_pc EXCEPT ![c] = "done"]
    /\ UNCHANGED <<pg_made, pg_op, pg_seen, pg_created, pg_ret>>
    /\ PgFrame

\* the coroutine goes on to its next call
PgReturn(c) ==
    /\ pg_pc[c] = "done"
    /\ pg_pc' = [pg_pc EXCEPT ![c] = "idle"]
    /\ UNCHANGED <<pg_initialized, pg_pool, pg_made, pg_creates, pg_op, pg_seen, pg_created, pg_ret>>
    /\ PgFrame

PoolNext ==
    \E c \in Callers :
        \/ PgInitialize(c)
        \/ PgGetConnection(c)
        \/ PgPoolCreated(c)
        \/ PgCreateFails(c)
        \/ PgAcquire(c)
        \/ PgClosePool(c)
        \/ PgPoolClosed(c)
        \/ PgReturn(c)

PoolSpec == Init /\ [][PoolNext]_vars

\* ------------------------------------------------------------------------
\* What the claims about enrichment speak of
\* ------------------------------------------------------------------------
IsLetter(c) == c \in 65..90 \/ c \in 97..122

\* two emails that differ at most in letter case
EqIgnoreCase(s, t) ==
    /\ Len(s) = Len(t)
    /\ \A i \in DOMAIN s :
         \/ s[i] = t[i]
         \/ /\ IsLetter(s[i]) /\ IsLetter(t[i])
            /\ (s[i] - t[i] = 32 \/ t[i] - s[i] = 32)

\* enrichment has returned its list
Enriched == pc \in {"save", "respond", "done"} /\ enriched_records # None

CallsIn == call_data[1]
PdpsIn == pdp_records[1]
RecordsOut == enriched_records[1]

\* the call records with the (agent, date) key of the PDP record r
MatchingCalls(r) ==
    {i \in DOMAIN CallsIn :
       /\ EqIgnoreCase(CallsIn[i].agent_email, r.agent_email)
       /\ CallsIn[i].call_date = r.record_date}

Matched(r) == MatchingCalls(r) # {}

\* S: the seconds of the call record the lookup keeps for r's key
SecondsFor(r) == CallsIn[MaxOf(MatchingCalls(r))].total_connected_seconds

SameGroup(r, q) ==
    EqIgnoreCase(r.agent_email, q.agent_email) /\ r.record_date = q.record_date

\* T: the summed pdp_count of the fetched records in r's group
GroupTotal(r) ==
    SumSeq([i \in DOMAIN PdpsIn |->
              IF SameGroup(PdpsIn[i], r) THEN PdpsIn[i].pdp_count ELSE 0])

\* the seconds given to the output records of r's group, summed
GroupSecondsOut(r) ==
    SumSeq([j \in DOMAIN RecordsOut |->
              IF SameGroup(RecordsOut[j], r) /\ RecordsOut[j].total_connected_seconds # None
              THEN RecordsOut[j].total_connected_seconds[1] ELSE 0])

\* a record without the two fields enrichment fills in
Bare(r) ==
    [agent_email |-> r.agent_email, record_date |-> r.record_date,
     pdp_count |-> r.pdp_count]

Occurrences(recs, b) == Cardinality({i \in DOMAIN recs : Bare(recs[i]) = b})

\* C1: every member of a matched group with summed pdp_count T > 0 is given
\* floor(S * c / T) connected seconds, c being its own pdp_count
C1_ApportionIsFloor ==
    Enriched =>
      \A j \in DOMAIN RecordsOut :
        LET r == RecordsOut[j] IN
        (Matched(r) /\ GroupTotal(r) > 0) =>
          r.total_connected_seconds =
            Some((SecondsFor(r) * r.pdp_count) \div GroupTotal(r))

\* C2: the seconds given to the members of a matched group sum to at most
\* the call's seconds S, and each member's seconds lie in 0..S
C2_ApportionConservation ==
    Enriched =>
      \A j \in DOMAIN RecordsOut :
        LET r == RecordsOut[j] IN
        Matched(r) =>
          /\ r.total_connected_seconds # None
          /\ r.total_connected_seconds[1] \in 0..SecondsFor(r)
          /\ GroupSecondsOut(r) <= SecondsFor(r)

\* a matched group of two members loses seconds to truncation
C2_Witness ==
    /\ Enriched
    /\ \E j \in DOMAIN RecordsOut :
         LET r == RecordsOut[j] IN
         /\ Matched(r)
         /\ GroupTotal(r) > r.pdp_count
         /\ r.pdp_count > 0
         /\ GroupSecondsOut(r) < SecondsFor(r)

\* C3: once both fetches returned, enrichment returns its list (no
\* division by zero), and the members of a matched group whose summed
\* pdp_count is 0 all carry 0 connected seconds
C3_ZeroActivitySafe ==
    (pc \in {"save", "respond", "done"} /\ pdp_records # None) =>
      /\ enriched_records # None
      /\ \A j \in DOMAIN RecordsOut :
           LET r == RecordsOut[j] IN
           (Matched(r) /\ GroupTotal(r) = 0) => r.total_connected_seconds = Some(0)

C3_Witness ==
    /\ Enriched
    /\ \E j \in DOMAIN RecordsOut :
         Matched(RecordsOut[j]) /\ GroupTotal(RecordsOut[j]) = 0

\* C4: enrichment returns each fetched PDP record exactly once with its
\* pdp_count, and the response of execute reports total_records = the
\* number of PDP records fetched and total_pdps = the sum of their pdp_count
C4_OneOutputPerInput ==
    (pc = "done" /\ pdp_records # None) =>
      /\ enriched_records # None
      /\ Len(RecordsOut) = Len(PdpsIn)
      /\ \A i \in DOMAIN PdpsIn :
           Occurrences(RecordsOut, Bare(PdpsIn[i])) = Occurrences(PdpsIn, Bare(PdpsIn[i]))
      /\ response[1].total_records = Len(PdpsIn)
      /\ "total_pdps" \in DOMAIN response[1]
      /\ response[1].total_pdps = SumSeq([i \in DOMAIN PdpsIn |-> PdpsIn[i].pdp_count])

\* C5: every PDP record whose key has no call record is in the output,
\* and with connected seconds None (not 0)
C5_UnmatchedStaysNone ==
    Enriched =>
      /\ \A j \in DOMAIN RecordsOut :
           ~Matched(RecordsOut[j]) => RecordsOut[j].total_connected_seconds = None
      /\ \A i \in DOMAIN PdpsIn :
           ~Matched(PdpsIn[i]) =>
             Occurrences(RecordsOut, Bare(PdpsIn[i])) = Occurrences(PdpsIn, Bare(PdpsIn[i]))

C5_Witness ==
    /\ Enriched
    /\ \E j \in DOMAIN RecordsOut : ~Matched(RecordsOut[j])

\* C6: a PDP record and a call record of the same date whose emails differ
\* only in letter case are joined
C6_JoinIgnoresCase ==
    Enriched =>
      \A j \in DOMAIN RecordsOut : \A i \in DOMAIN CallsIn :
        (/\ EqIgnoreCase(RecordsOut[j].agent_email, CallsIn[i].agent_email)
         /\ RecordsOut[j].record_date = CallsIn[i].call_date)
        => RecordsOut[j].total_connected_seconds # None

\* the only call of the record's date spells the email differently
C6_Witness ==
    /\ Enriched
    /\ \E j \in DOMAIN RecordsOut :
         /\ Matched(RecordsOut[j])
         /\ \A i \in MatchingCalls(RecordsOut[j]) :
              CallsIn[i].agent_email # RecordsOut[j].agent_email

\* C7: the rate of every enriched record is 0 when its connected seconds
\* are None or 0, and pdp_count * 3600 / connected seconds otherwise
C7_RateOfEveryRecord ==
    Enriched =>
      \A j \in DOMAIN RecordsOut :
        LET r == RecordsOut[j] IN
        /\ r.pdp_per_hour # None
        /\ IF r.total_connected_seconds = None \/ r.total_connected_seconds = Some(0)
           THEN RateEq(r.pdp_per_hour[1], RateZero)
           ELSE RateEq(r.pdp_per_hour[1],
                       Rate(r.pdp_count * 3600, r.total_connected_seconds[1]))

\* ------------------------------------------------------------------------
\* What the claims about the heatmap matrices speak of
\* ------------------------------------------------------------------------
\* the number a text of decimal digits denotes
RECURSIVE NumOf(_)
NumOf(t) ==
    IF t = <<>> THEN 0
    ELSE 10 * NumOf(SubSeq(t, 1, Len(t) - 1)) + (t[Len(t)] - 48)

IsDayText(t) ==
    /\ t # <<>>
    /\ t[1] # 48
    /\ \A i \in DOMAIN t : t[i] \in 48..57

\* a builder has returned its matrix
HmBuilt == hm_result # None /\ ~hm_result.raised

HmRecords == hm_input[1]
HmRows == hm_result.value

\* the day of month of an input observation, and of a matrix column
HmInputDay(rec) ==
    IF hm_builder = "HeatmapFormatter" THEN rec.day ELSE rec.record_date.day

HmColumnDay(col) ==
    IF hm_builder = "HeatmapFormatter" THEN col.key ELSE NumOf(col.key)

\* the input observation rec belongs to the agent of the matrix row
HmOfRow(rec, row) ==
    IF hm_builder = "ExcelService"
    THEN agent_key(rec) = agent_key([dni |-> row.DNI, agent_name |-> row.EJECUTIVO])
    ELSE IF hm_builder = "PandasTransformationService"
    THEN rec.dni = row.DNI /\ rec.agent_name = row.EJECUTIVO
    ELSE rec.dni = row.dni /\ rec.agent_name = row.agent_name

HmObserved(row, day) ==
    \E i \in DOMAIN HmRecords :
      HmOfRow(HmRecords[i], row) /\ HmInputDay(HmRecords[i]) = day

\* C8: the rows ExcelService._prepare_heatmap_data returns all carry DNI,
\* EJECUTIVO, Promedio and one day column per distinct day of month of the
\* input, keyed by the day's decimal text, in ascending numeric order (10
\* after 9); generate_pdp_report declares the same day columns
C8_DayColumnsCompleteAscending ==
    (hm_builder = "ExcelService") =>
      LET days == {HmRecords[i].record_date.day : i \in DOMAIN HmRecords}
      IN  /\ \A r \in DOMAIN HmRows :
               LET cols == HmRows[r].days IN
               /\ DOMAIN HmRows[r] = {"DNI", "EJECUTIVO", "days", "Promedio"}
               /\ Len(cols) = Cardinality(days)
               /\ \A i \in DOMAIN cols : IsDayText(cols[i].key)
               /\ {NumOf(cols[i].key) : i \in DOMAIN cols} = days
               /\ \A i, j \in DOMAIN cols :
                    i < j => NumOf(cols[i].key) < NumOf(cols[j].key)
               /\ [i \in DOMAIN cols |-> cols[i].key] = hm_headers[1].day_columns
          /\ Len(hm_headers[1].day_columns) = Cardinality(days)

\* two agents over the days 9 and 10, one of them without data on a day
C8_Witness ==
    /\ hm_builder = "ExcelService"
    /\ Len(HmRows) = 2
    /\ \A r \in DOMAIN HmRows :
         [i \in DOMAIN HmRows[r].days |-> HmRows[r].days[i].key] = <<str(9), str(10)>>
    /\ \E r \in DOMAIN HmRows : \E i \in DOMAIN HmRows[r].days :
         HmRows[r].days[i].value = EmptyMarker

\* C9: in every matrix a builder returns, the cell of an agent and a day
\* for which the input holds no observation is the empty marker, not a
\* number
C9_MissingCellIsEmptyMarker ==
    HmBuilt =>
      \A r \in DOMAIN HmRows : \A i \in DOMAIN HmRows[r].days :
        LET col == HmRows[r].days[i] IN
        ~HmObserved(HmRows[r], HmColumnDay(col)) => col.value = EmptyMarker

\* the precision of a builder's Promedio, in hundredths
HmPrecision == IF hm_builder = "ExcelService" THEN 1 ELSE 10

\* C10: the Promedio of every row equals, to the precision the builder
\* rounds to, the mean of the row's day cells that are numbers above 0
C10_PromedioIsMeanOfPositiveCells ==
    (hm_builder \in {"ExcelService", "PandasTransformationService"}) =>
      \A r \in DOMAIN HmRows :
        LET row == HmRows[r]
            positive == {i \in DOMAIN row.days :
                           /\ row.days[i].value # EmptyMarker
                           /\ row.days[i].value.hundredths > 0}
            n == Cardinality(positive)
            total == SumSeq([i \in DOMAIN row.days |->
                               IF i \in positive THEN row.days[i].value.hundredths ELSE 0])
            diff == n * row.Promedio.hundredths - total
        IN  n > 0 => (2 * diff <= n * HmPrecision /\ -2 * diff <= n * HmPrecision)

\* ------------------------------------------------------------------------
\* Claims about the summary column and the order of the rows
\* ------------------------------------------------------------------------
\* the day cells of a row that hold a number, as (key, value) pairs
PopulatedCells(row) ==
    {<<row.days[i].key, row.days[i].value>> :
       i \in {j \in DOMAIN row.days : row.days[j].value # EmptyMarker}}

\* the input without the records other agents have on the day
WithoutOthersOn(records, row, day) ==
    SelectSeq(records, LAMBDA rec :
      agent_key(rec) = agent_key([dni |-> row.DNI, agent_name |-> row.EJECUTIVO])
      \/ rec.record_date.day # day)

\* the row of the same agent in another matrix
RowsOfAgent(rows, row) ==
    {i \in DOMAIN rows : rows[i].DNI = row.DNI /\ rows[i].EJECUTIVO = row.EJECUTIVO}

\* C11: for a row A of the matrix of ExcelService._prepare_heatmap_data
\* and a day on which A has no record, the matrix built from the input
\* without the other agents' records of that day holds a row for A with
\* the same Promedio and the same populated cells
C11_SummaryIgnoresEmptyCells ==
    (hm_builder = "ExcelService") =>
      \A r \in DOMAIN HmRows : \A i \in DOMAIN HmRows[r].days :
        LET row == HmRows[r]
            day == NumOf(row.days[i].key)
            other == prepare_heatmap_data(WithoutOthersOn(HmRecords, row, day))
        IN  row.days[i].value = EmptyMarker =>
              /\ RowsOfAgent(other, row) # {}
              /\ \A k \in RowsOfAgent(other, row) :
                   /\ other[k].Promedio = row.Promedio
                   /\ PopulatedCells(other[k]) = PopulatedCells(row)

\* a row with an empty-marker cell, a populated cell and a Promedio above 0
C11_Witness ==
    /\ hm_builder = "ExcelService"
    /\ \E r \in DOMAIN HmRows :
         /\ HmRows[r].Promedio.hundredths > 0
         /\ \E i \in DOMAIN HmRows[r].days : HmRows[r].days[i].value = EmptyMarker

\* C12: the rows ExcelService._prepare_heatmap_data and
\* PandasTransformationService.create_productivity_heatmap return are in
\* non-increasing order of Promedio
C12_RowsByPromedioDescending ==
    (hm_builder \in {"ExcelService", "PandasTransformationService"}) =>
      \A r \in DOMAIN HmRows :
        r + 1 \in DOMAIN HmRows =>
          HmRows[r].Promedio.hundredths >= HmRows[r + 1].Promedio.hundredths

\* the agent met first in the input has the smaller Promedio and comes last
C12_Witness ==
    /\ hm_builder \in {"ExcelService", "PandasTransformationService"}
    /\ Len(HmRows) = 2
    /\ HmRows[1].Promedio.hundredths > HmRows[2].Promedio.hundredths
    /\ HmRecords[1].dni = HmRows[2].DNI
    /\ HmRecords[1].agent_name = HmRows[2].EJECUTIVO

\* C13: rows of ExcelService._prepare_heatmap_data with equal Promedio
\* follow each other in ascending DNI order, whatever the order of the
\* input records
C13_TiesByAscendingDni ==
    (hm_builder = "ExcelService") =>
      \A r \in DOMAIN HmRows :
        (r + 1 \in DOMAIN HmRows /\ HmRows[r].Promedio = HmRows[r + 1].Promedio) =>
          ~LexLess(HmRows[r + 1].DNI, HmRows[r].DNI)

\* ------------------------------------------------------------------------
\* Claims about the detail sheet
\* ------------------------------------------------------------------------
DetailRows == hm_detailed[1]

\* the date, hour and agent id a detail row shows, read back from its text
ShownDate(row) ==
    Date(NumOf(SubSeq(row.Fecha, 1, 4)), NumOf(SubSeq(row.Fecha, 6, 7)),
         NumOf(SubSeq(row.Fecha, 9, 10)))

ShownHour(row) == NumOf(SubSeq(row.Hora, 1, Len(row.Hora) - 3))

Shown(row) ==
    [dni |-> row.DNI, agent_name |-> row.Ejecutivo, record_date |-> ShownDate(row),
     hour |-> ShownHour(row), pdp_count |-> row.Gestiones_PDP]

\* (date, hour, agent id) of a is at most that of b
DetailLeq(a, b) ==
    \/ a.record_date # b.record_date /\ DateLeq(a.record_date, b.record_date)
    \/ a.record_date = b.record_date /\ a.hour < b.hour
    \/ a.record_date = b.record_date /\ a.hour = b.hour /\ ~LexLess(b.dni, a.dni)

\* C14: ExcelService._prepare_detailed_data returns one row per input
\* record, and the rows are in ascending order of (date, hour, agent id)
C14_DetailRowsSorted ==
    (hm_builder = "ExcelService") =>
      /\ Len(DetailRows) = Len(HmRecords)
      /\ \A i \in DOMAIN HmRecords :
           Cardinality({j \in DOMAIN DetailRows : Shown(DetailRows[j]) = HmRecords[i]})
             = Cardinality({j \in DOMAIN HmRecords : HmRecords[j] = HmRecords[i]})
      /\ \A i, j \in DOMAIN DetailRows :
           i < j => DetailLeq(Shown(DetailRows[i]), Shown(DetailRows[j]))

\* the input has hour 10 before hour 9 on one date; the rows have 9 first
C14_Witness ==
    /\ hm_builder = "ExcelService"
    /\ Len(HmRecords) = 2
    /\ HmRecords[1].record_date = HmRecords[2].record_date
    /\ HmRecords[1].hour = 10 /\ HmRecords[2].hour = 9
    /\ ShownHour(DetailRows[1]) = 9 /\ ShownHour(DetailRows[2]) = 10

\* ------------------------------------------------------------------------
\* Claims about the coloring of the heatmap sheet
\* ------------------------------------------------------------------------
StyledRows == hm_styles[1]

\* the number a cell holds, in hundredths; None for a cell that is empty,
\* missing or not numeric
NumericValue(cell) ==
    IF "hundredths" \in DOMAIN cell THEN Some(cell.hundredths)
    ELSE IF "chars" \in DOMAIN cell /\ IsDayText(cell.chars)
    THEN Some(100 * NumOf(cell.chars))
    ELSE None

\* C15: ExcelGenerator._apply_heatmap writes every cell of a day column
\* with exactly one of the four formats: the high one (green) for a value
\* of 3 or more, the medium one (yellow) for a value from 2 up to 3, the
\* low one (red) for a value above 0 and below 2, the neutral one (white)
\* for a cell that is empty, missing or not numeric
C15_CellStyleByThreshold ==
    (hm_builder = "ExcelGenerator") =>
      \A r \in DOMAIN StyledRows : \A c \in DOMAIN StyledRows[r] :
        LET w == StyledRows[r][c]
            v == NumericValue(w.cell)
        IN  /\ w.written.format \in
                 {"format_green", "format_yellow", "format_red", "format_white"}
            /\ (v # None /\ v[1] >= 300) => w.written.format = "format_green"
            /\ (v # None /\ v[1] >= 200 /\ v[1] < 300) => w.written.format = "format_yellow"
            /\ (v # None /\ v[1] > 0 /\ v[1] < 200) => w.written.format = "format_red"
            /\ v = None => w.written.format = "format_white"

\* a sheet with a cell at the high threshold and a missing cell
C15_Witness ==
    /\ hm_builder = "ExcelGenerator"
    /\ \E r \in DOMAIN StyledRows : \E c \in DOMAIN StyledRows[r] :
         StyledRows[r][c].cell = Number(300) /\ StyledRows[r][c].written.format = "format_green"
    /\ \E r \in DOMAIN StyledRows : \E c \in DOMAIN StyledRows[r] :
         StyledRows[r][c].cell = NaN /\ StyledRows[r][c].written.format = "format_white"

\* ------------------------------------------------------------------------
\* Claims about the results of execute without data and after a failure
\* ------------------------------------------------------------------------
\* C16: when the PDP source returns no record, execute returns a result
\* with total_records = 0 that is not a failure and that carries a reason
\* naming the period
C16_EmptyPdpGivesNoDataResult ==
    (pc = "done" /\ pdp_records = Some(<<>>)) =>
      /\ response # None
      /\ response[1].total_records = 0
      /\ response[1].errors # <<>>
      /\ \A i \in DOMAIN response[1].errors :
           response[1].errors[i][1] # "Failed to process PDP data: "
      /\ response[1].period # ""

\* the call fetch raised, or it returned calls and the PDP fetch raised
CallFetchFailed == pc = "done" /\ call_data = None
PdpFetchFailed ==
    pc = "done" /\ call_data # None /\ call_data # Some(<<>>) /\ pdp_records = None

\* C17: after a failed fetch execute has returned a response with
\* total_records = 0 and the one error message "Failed to process PDP
\* data: <cause>", the cause being the message of the fetch that failed
C17_FetchFailureIsReported ==
    /\ CallFetchFailed =>
         /\ response # None
         /\ response[1].total_records = 0
         /\ response[1].errors =
              << <<"Failed to process PDP data: ", "Failed to fetch call data">> >>
    /\ PdpFetchFailed =>
         /\ response # None
         /\ response[1].total_records = 0
         /\ response[1].errors =
              << <<"Failed to process PDP data: ", "Failed to fetch PDP records">> >>

\* the call fetch returned two calls and the PDP fetch raised
C17_Witness ==
    /\ PdpFetchFailed
    /\ Len(call_data[1]) = 2
    /\ response # None
    /\ Len(response[1].errors) = 1

\* ------------------------------------------------------------------------
\* Claims about the repositories
\* ------------------------------------------------------------------------
\* the outcome of mapping one row, by the repository that was called
RowOutcome(row) ==
    IF repo_name = "BigQueryPDPRepository"
    THEN BigQueryPDPRepository_map_row_to_entity(row)
    ELSE PostgresCallRepository_map_row_to_entity(row)

\* the entities of the rows that can be mapped, in the order of the rows
RECURSIVE EntitiesOfMappable(_)
EntitiesOfMappable(rows) ==
    IF rows = <<>> THEN <<>>
    ELSE LET o == RowOutcome(Head(rows))
         IN  (IF o.raised THEN <<>> ELSE <<o.value>>) \o EntitiesOfMappable(Tail(rows))

\* C18: a fetch returns the entities of exactly the rows that can be
\* mapped, in order, and a row that cannot be mapped never makes the fetch
\* raise
C18_MalformedRowsAreSkipped ==
    repo_name # "idle" =>
        /\ ~repo_result[1].raised
        /\ repo_result[1].value = EntitiesOfMappable(repo_rows[1])


\* ------------------------------------------------------------------------
\* Claims about concurrent runs
\* ------------------------------------------------------------------------
\* C19: no two runs write to the same file path, and the file a run wrote
\* still holds what that run wrote
C19_RunsWriteDistinctFiles ==
    \A e1, e2 \in Runs :
        (e1 # e2 /\ run_path[e1] # None /\ run_path[e2] # None) =>
            /\ run_path[e1] # run_path[e2]
            /\ files[run_path[e1][1]].writer = e1


\* ------------------------------------------------------------------------
\* Claims about the route
\* ------------------------------------------------------------------------
\* C20: a request whose start date is later than its end date is answered
\* with status 400 and the detail "Start date must be before or equal to
\* end date", and the use case is not executed for it
C20_InvalidDatesAnswered400 ==
    (route_pc = "responded"
       /\ ~DateLeq(route_request[1].start_date, route_request[1].end_date)) =>
        /\ route_response[1].status_code = 400
        /\ route_response[1].detail = "Start date must be before or equal to end date"
        /\ ~route_response[1].executed

\* ------------------------------------------------------------------------
\* Claims about the entity constructor
\* ------------------------------------------------------------------------
\* C21: a PDPRecord(...) call whose due day is outside 1..31 (its other
\* arguments being valid) raises the ValueError "Due day must be between 1
\* and 31", and no PDPRecord has a due day outside 1..31
C21_DueDayWithin1To31 ==
    ctor_args # None =>
        LET kw == ctor_args[1]
            r == ctor_result[1]
        IN  /\ (kw.due_day \notin 1..31 /\ kw.pdp_count >= 0) =>
                   /\ r.raised
                   /\ r.exc = "ValueError"
                   /\ r.message = "Due day must be between 1 and 31"
            /\ ~r.raised => r.value.due_day \in 1..31

\* ------------------------------------------------------------------------
\* Claims about enrichment with several calls of one key
\* ------------------------------------------------------------------------
\* C22: with several call records of one (normalized email, date) key,
\* enrichment returns its list, and a record that holds the whole
\* pdp_count of its group is given the connected seconds of the last call
\* record of its key
C22_LastCallOfKeyWins ==
    (pc \in {"save", "respond", "done"} /\ pdp_records # None) =>
      /\ enriched_records # None
      /\ \A j \in DOMAIN RecordsOut :
           LET r == RecordsOut[j] IN
           (Matched(r) /\ r.pdp_count > 0 /\ GroupTotal(r) = r.pdp_count) =>
             r.total_connected_seconds = Some(SecondsFor(r))

\* two call records of one key carry different seconds
C22_Witness ==
    /\ Enriched
    /\ \E j \in DOMAIN RecordsOut :
         LET r == RecordsOut[j] IN
         /\ Matched(r) /\ r.pdp_count > 0 /\ GroupTotal(r) = r.pdp_count
         /\ \E a, b \in MatchingCalls(r) :
              /\ a < b
              /\ CallsIn[a].total_connected_seconds # CallsIn[b].total_connected_seconds

\* ------------------------------------------------------------------------
\* Claims about the order of the steps of execute
\* ------------------------------------------------------------------------
\* C23: enrichment starts, and has run, only when both fetches have
\* returned; after a failed fetch nothing is enriched, no file is written
\* and the response carries no record and no file path
C23_EnrichOnlyAfterBothFetches ==
    /\ (pc = "enrich" \/ enriched_records # None) =>
         (call_data # None /\ pdp_records # None)
    /\ csv_file # None => enriched_records # None
    /\ (CallFetchFailed \/ PdpFetchFailed) =>
         /\ enriched_records = None
         /\ csv_file = None
         /\ response # None
         /\ response[1].total_records = 0
         /\ response[1].excel_file_path = ""

\* the call fetch returned one call and the PDP fetch raised
C23_Witness ==
    /\ PdpFetchFailed
    /\ Len(call_data[1]) = 1
    /\ enriched_records = None

\* ------------------------------------------------------------------------
\* Claims about the rows and cells of the heatmap
\* ------------------------------------------------------------------------
\* the agent key of a matrix row
RowKey(row) == agent_key([dni |-> row.DNI, agent_name |-> row.EJECUTIVO])

\* the builder read observations and returned a matrix
HmFromRecords ==
    /\ hm_builder \in {"ExcelService", "PandasTransformationService"}
    /\ HmBuilt

\* C24: the matrix has exactly one row per agent key of the input, the key
\* being the DNI unless it is the placeholder, and then the placeholder
\* with the agent name
C24_OneRowPerAgentKey ==
    HmFromRecords =>
      /\ \A i \in DOMAIN HmRecords :
           \E n \in DOMAIN HmRows : RowKey(HmRows[n]) = agent_key(HmRecords[i])
      /\ \A n \in DOMAIN HmRows :
           \E i \in DOMAIN HmRecords : RowKey(HmRows[n]) = agent_key(HmRecords[i])
      /\ \A n, k \in DOMAIN HmRows :
           RowKey(HmRows[n]) = RowKey(HmRows[k]) => n = k

\* the records of a row's agent on the day of a column
CellRecords(row, col) ==
    {i \in DOMAIN HmRecords :
       /\ HmOfRow(HmRecords[i], row)
       /\ HmInputDay(HmRecords[i]) = HmColumnDay(col)}

\* the precision of a builder's day cells, in hundredths
CellPrecision == IF hm_builder = "ExcelService" THEN 1 ELSE 10

RECURSIVE ProdSeq(_)
ProdSeq(s) == IF s = <<>> THEN 1 ELSE Head(s) * ProdSeq(Tail(s))

\* the day cells of a row that its builder averages: the populated ones,
\* for ExcelService those above 0
AveragedCells(row) ==
    SelectSeq(row.days, LAMBDA col :
      /\ col.value # EmptyMarker
      /\ (hm_builder = "ExcelService" => col.value.hundredths > 0))

CellTotal(row, col) ==
    SumSeq([i \in DOMAIN HmRecords |->
              IF i \in CellRecords(row, col) THEN HmRecords[i].pdp_count ELSE 0])

CellHours(row, col) == Cardinality({HmRecords[i].hour : i \in CellRecords(row, col)})

\* C26: the Promedio of a row is the rounding, to the precision the builder
\* shows, of the mean of the unrounded day values total / hours of the
\* cells it averages
C26_SummaryFromUnroundedCells ==
    HmFromRecords =>
      \A r \in DOMAIN HmRows :
        LET row == HmRows[r]
            cells == AveragedCells(row)
            n == Len(cells)
            den == ProdSeq([i \in DOMAIN cells |-> CellHours(row, cells[i])])
            num == SumSeq([i \in DOMAIN cells |->
                             CellTotal(row, cells[i]) * (den \div CellHours(row, cells[i]))])
            diff == row.Promedio.hundredths * n * den - 100 * num
        IN  n > 0 =>
              /\ 2 * diff <= HmPrecision * n * den
              /\ -2 * diff <= HmPrecision * n * den

\* ------------------------------------------------------------------------
\* Claims about AuthClient
\* ------------------------------------------------------------------------
\* the call of caller c began while a token was cached and not yet expired
BeganWithFreshToken(c) ==
    /\ auth_seen[c] # None
    /\ auth_seen[c][1].token # None
    /\ auth_seen[c][1].expiry # None
    /\ auth_seen[c][1].at < auth_seen[c][1].expiry[1]

AttemptSucceeded(met) ==
    /\ met.kind = "response"
    /\ met.status = 200
    /\ cleaned_text(met.text) \in {<<"{", "}">>, <<"[", "]">>}

C28_AtMostThreeAttempts ==
    /\ Len(http_log) <= API_MAX_RETRIES
    /\ \A i \in 1..(Len(http_log) - 1) : ~AttemptSucceeded(http_log[i])
    /\ (http_log # <<>> /\ AttemptSucceeded(http_log[Len(http_log)])) =>
           /\ http_pc = "done"
           /\ http_result =
                  Some(Returned(json_loads(
                      cleaned_text(http_log[Len(http_log)].text)).value))
    /\ (http_pc = "done" /\ ~AttemptSucceeded(http_log[Len(http_log)])) =>
           /\ Len(http_log) = API_MAX_RETRIES
           /\ http_result # None
           /\ http_result[1].raised
    /\ http_pc # "done" => http_result = None

C28_Witness ==
    /\ http_pc = "done"
    /\ Len(http_log) = API_MAX_RETRIES
    /\ http_result = Some(Raised(RetryError))

\* ------------------------------------------------------------------------
\* C29: commit is called only after the body finished without raising;
\* whenever the body raised, rollback was called and the caller received a
\* DatabaseException; commit is never called after rollback
\* ------------------------------------------------------------------------
Called(op) == \E i \in 1..Len(tx_log) : tx_log[i] = op

BodyRaised == tx_body # None /\ tx_body[1].raised

ReceivedDatabaseException ==
    /\ tx_result # None
    /\ tx_result[1].raised
    /\ tx_result[1].exc.type = "DatabaseException"

\* C29, the part about commit: commit only after a body that did not raise,
\* and never after rollback
C29_CommitOnlyAfterBody ==
    /\ Called("commit") => (tx_body # None /\ ~tx_body[1].raised)
    /\ \A i, j \in 1..Len(tx_log) :
           (tx_log[i] = "rollback" /\ tx_log[j] = "commit") => j < i

\* C29: commit only after a body that did not raise and never after
\* rollback; a body that raised means rollback was called and the caller
\* received a DatabaseException
C29_RaisingBodyRollsBack ==
    /\ C29_CommitOnlyAfterBody
    /\ (tx_pc = "done" /\ BodyRaised) =>
           (Called("rollback") /\ ReceivedDatabaseException)

\* the body was cancelled: no rollback, and the caller receives the
\* cancellation itself
C29_CancelledBody ==
    /\ tx_pc = "done"
    /\ tx_body = Some(Raised("CancelledError"))
    /\ ~Called("rollback")
    /\ tx_result = Some(Raised(Propagated("CancelledError")))

\* the body raised, rollback was called and raised too
C29_RollbackRaises ==
    /\ tx_pc = "done"
    /\ BodyRaised
    /\ Called("rollback")
    /\ tx_result = Some(Raised(Propagated("InterfaceError")))

\* ------------------------------------------------------------------------
\* C30: between two close_pool calls at most one pool is created, also when
\* two coroutines trigger the lazy initialize concurrently; a call of
\* initialize that finds _initialized true creates no pool
\* ------------------------------------------------------------------------
C30_InitializedCreatesNoPool ==
    \A c \in Callers :
        (pg_op[c] \in {"initialize", "get_connection"} /\ pg_seen[c]) =>
            ~pg_created[c]

\* C30: at most one pool is created between two close_pool calls, and a
\* call that finds _initialized true creates none
C30_PoolCreatedAtMostOnce ==
    /\ pg_creates <= 1
    /\ C30_InitializedCreatesNoPool

\* both coroutines are inside create_pool, no close_pool was ever called
C30_TwoPoolsRequested ==
    /\ pg_creates = 2
    /\ \A c \in Callers : pg_pc[c] = "creating" /\ pg_op[c] = "get_connection"

====
